---- MODULE Spec2Model ----
(***************************************************************************)
(* A model of the Pebble native core (rust/src/api): the resumable         *)
(* transfer protocol of transfer.rs with the certificate pinning of        *)
(* certificate.rs, the beacon receiver of discovery.rs and the start and   *)
(* stop of its services, and the metadata store of db.rs with the file     *)
(* watcher of watcher.rs.                                                  *)
(*                                                                         *)
(* Files are byte sequences.  CHUNK_SIZE is scaled down from 1 MiB so that *)
(* files of several chunks, with a short last chunk, stay small.           *)
(***************************************************************************)
EXTENDS Integers, Sequences, FiniteSets, TLC

\* ------------------------------------------------------------------ bounds
CHUNK_SIZE == 2
MaxFileSize == 5
MaxSessions == 2

StartTime == 40      \* the receiver's clock, in seconds, when discovery starts
MaxElapsed == 24     \* seconds of discovery that are explored
U64_MAX == 127       \* the largest timestamp, scaled down from 2^64 - 1

\* the events a watcher's channel holds at most, and the watchers created
\* at most
MaxQueue == 2

MaxWatchers == 2

\* the DiscoveryService objects created at most
MaxServices == 2
\* the values of one byte of a length (256 in the program)
ByteValues == 3
\* the messages written to one stream
MaxFrames == 2
\* the certificates generated at most
MaxGenerated == 3
\* the calls of start_transfer_server at most
MaxServers == 3
\* the calls of init_db at most
MaxInits == 2
\* the frames a peer has written that send_file has not read
MaxReplies == 2
\* beacons signed in one run
MaxSigned == 2
\* calls of start() on one DiscoveryService
MaxStarts == 3

\* constants of discovery.rs
DEVICE_TIMEOUT_SECS == 15
REPLAY_WINDOW_SECS == 30
CLEANUP_INTERVAL_SECS == 5

Sessions == 1..MaxSessions
TransferIds == {"t1", "t2"}
CertDers == {"derA", "derB"}

VARIABLES
    srcFile,      \* the sender's file: a sequence of bytes
    destFile,     \* the receiver's destination path: [exists, bytes]
    initDest,     \* the destination path as it was before any session
    tableExists,  \* whether pebble.db holds a transfer_state table
    rows,         \* transfer_state: transfer_id -> received_chunks
    serverCert,   \* DER of the leaf certificate the server presents
    clientPin,    \* TransferClient.server_fingerprint: {} (None) or {f} (Some(f))
    client,       \* per connection: the state of TransferClient::send_file
    server,       \* per connection: the state of TransferServer::handle_client
    c2s,          \* per connection: frames written by the client, unread
    s2c,          \* per connection: frames written by the server, unread
    acksSent,     \* transfer_id -> number of ChunkAck frames the server wrote
    appSent,      \* per connection: whether the client has written any frame
    now,          \* SystemTime::now() in whole seconds since the epoch
    receiver,     \* the beacon_receiver task: "off", "running" or "panicked"
    last_cleanup, \* beacon_receiver's last_cleanup, in whole seconds
    buffer,       \* the datagram beacon_receiver has read in the current second
    src_addr,     \* the UDP source address recv_from gave for that datagram
    devices,      \* discovered_devices: device_id -> DiscoveredDevice
    receivedAt,   \* device_id -> the clock when its last accepted beacon was read
    fs,           \* the file system: path -> absent, directory or regular file
    files,        \* the rows of table files in pebble.db
    watchers,     \* every FileWatcher created so far, in order of creation
    instance,     \* WATCHER_INSTANCE: 0 (None) or the index of a watcher
    result,       \* what the last call of the public API returned
    services,     \* every DiscoveryService created so far, with its two tasks
    discovery_service,   \* DISCOVERY_SERVICE: 0 (None) or the index of a service
    wire,   \* the bytes written to one stream and not read yet
    framed,   \* the messages to_bytes has put onto the stream, in order
    decoded,   \* the messages from_stream has returned, in order
    reader,   \* whether from_stream has failed on the stream
    certFile,   \* pebble_cert.der in the certificate directory
    keyFile,   \* pebble_key.der in the certificate directory
    callers,   \* the calls of get_or_create_certificate, each with its position
    generated,   \* the certificates generated so far
    issued,   \* the fingerprints returned since the files were last deleted
    overlapped,   \* whether two calls of get_or_create_certificate ever ran at once
    transfer_servers,   \* the TransferServer tasks start_transfer_server has spawned
    hash_calls,   \* the calls of calculate_file_hash, each with its position
    hashed,   \* path -> the hashes returned since the path last changed
    files_table,   \* whether pebble.db has the table files
    init_calls,   \* the calls of init_db that have returned Ok
    signed,   \* the beacons BeaconMessage::new has signed under the shared key
    verified,   \* the beacon last given to verify, with the outcome
    sync_caller,   \* the caller that syncs the pending files: its position, the path and the hash of the version it sent
    is_running,   \* the is_running flag of one DiscoveryService
    tasks   \* the pairs of tasks its start() has spawned, each with whether stop() was called since

\* fixed once a run has started
envVars == <<srcFile, initDest, tableExists, serverCert, clientPin>>

transferVars == <<envVars, destFile, rows, client, server, c2s, s2c,
                  acksSent, appSent>>

discoveryVars == <<now, receiver, last_cleanup, buffer, src_addr, devices, receivedAt>>

storeVars == <<fs, files, watchers, instance, result>>

lifecycleVars == <<services, discovery_service>>

framingVars == <<wire, framed, decoded, reader>>

certVars == <<certFile, keyFile, callers, generated, issued, overlapped>>

listenVars == <<transfer_servers>>

hashVars == <<hash_calls, hashed>>

schemaVars == <<files_table, init_calls>>

beaconVars == <<signed, verified>>

syncVars == <<sync_caller>>

instanceVars == <<is_running, tasks>>

vars == <<transferVars, discoveryVars, storeVars, lifecycleVars, framingVars, certVars, listenVars, hashVars, schemaVars, beaconVars, syncVars, instanceVars>>

\* ------------------------------------------------------------ pure helpers
Min(a, b) == IF a <= b THEN a ELSE b
Max(a, b) == IF a >= b THEN a ELSE b

\* hex(SHA-256(bytes)): distinct inputs give distinct digests
Sha256(bytes) == <<"sha256", bytes>>

\* TlsCertificate::calculate_fingerprint
Fingerprint(der) == Sha256(der)

\* total_chunks = (file_size + CHUNK_SIZE - 1) / CHUNK_SIZE
TotalChunks(size) == (size + CHUNK_SIZE - 1) \div CHUNK_SIZE

\* File::read into a CHUNK_SIZE buffer at byte position pos
ReadChunk(bytes, pos) ==
    IF pos >= Len(bytes) THEN <<>>
    ELSE SubSeq(bytes, pos + 1, Min(pos + CHUNK_SIZE, Len(bytes)))

\* File::write_all of data at byte position pos (a hole reads as zeros)
WriteAt(bytes, pos, data) ==
    [j \in 1..Max(Len(bytes), pos + Len(data)) |->
        IF j > pos /\ j <= pos + Len(data) THEN data[j - pos]
        ELSE IF j <= Len(bytes) THEN bytes[j]
        ELSE 0]

\* OpenOptions::new().create(true).write(true).open(path): no truncation
OpenCreate(f) == IF f.exists THEN f ELSE [exists |-> TRUE, bytes |-> <<>>]

\* the seek both sides do when resume_from > 0
SeekOffset(resume_from) == IF resume_from > 0 THEN resume_from * CHUNK_SIZE ELSE 0

\* a lookup that ignores the stored row: every session starts at chunk 0
GetResumeChunkFresh(tbl, id) == 0

\* get_resume_chunk: SELECT received_chunks ... ; unwrap_or(0)
GetResumeChunk(tbl, id) == IF id \in DOMAIN tbl THEN tbl[id] ELSE 0

\* an upsert that stores the index of the chunk expected next, plus one
UpdateTransferStateAhead(tbl, id, n) ==
    [i \in (DOMAIN tbl) \cup {id} |-> IF i = id THEN n + 1 ELSE tbl[i]]

\* update_transfer_state: INSERT ... ON CONFLICT(transfer_id) DO UPDATE
UpdateTransferState(tbl, id, n) ==
    [i \in (DOMAIN tbl) \cup {id} |-> IF i = id THEN n ELSE tbl[i]]

\* a verifier that accepts whatever leaf is presented
VerifyServerCertAnyLeaf(pin, der) == TRUE

\* CustomCertVerifier::verify_server_cert; pin is {} (None) or {f} (Some(f))
VerifyServerCert(pin, der) == \A f \in pin : Fingerprint(der) = f

\* ---------------------------------------------------------------- frames
TransferRequest(id, size, total) ==
    [type |-> "TransferRequest", transfer_id |-> id,
     file_size |-> size, total_chunks |-> total]
TransferAccept(id, resume) ==
    [type |-> "TransferAccept", transfer_id |-> id, resume_from_chunk |-> resume]
ChunkData(id, index, data) ==
    [type |-> "ChunkData", transfer_id |-> id, chunk_index |-> index,
     chunk_hash |-> Sha256(data), data |-> data]
\* an acknowledgement that carries the index the server expects next
ChunkAckOfNext(id, index) ==
    [type |-> "ChunkAck", transfer_id |-> id, chunk_index |-> index + 1]
ChunkAck(id, index) ==
    [type |-> "ChunkAck", transfer_id |-> id, chunk_index |-> index]
TransferComplete(id) == [type |-> "TransferComplete", transfer_id |-> id]

\* ------------------------------------------------------------------ state
FileOfSize(n) == [j \in 1..n |-> j]
OldContent(n) == [j \in 1..n |-> 0]

\* sizes of the sender's file: empty, less than a chunk, one chunk, a chunk
\* and a short one, and the largest
FileSizes == {0, 1, CHUNK_SIZE, CHUNK_SIZE + 1, MaxFileSize}

\* sizes of what the destination path may hold beforehand: between the
\* sender's sizes, and longer than any file the sender has (an empty file
\* is what the open makes of an absent path)
OldSizes == {CHUNK_SIZE + 1, MaxFileSize + 1}

ClientIdle == [pc |-> "idle", tid |-> "t1", retry |-> FALSE, resume |-> 0,
               idx |-> 0, pos |-> 0]
ServerIdle == [pc |-> "idle", tid |-> "t1", total |-> 0, received |-> 0,
               pos |-> 0, cur_index |-> 0]

\* a side that has returned keeps no locals, and the frames it had not
\* read are dropped with its end of the connection
ClientEnded(cl, how) == [ClientIdle EXCEPT !.pc = how, !.tid = cl.tid]
ServerEnded(sv, how) == [ServerIdle EXCEPT !.pc = how, !.tid = sv.tid]

ServerLive(s) == server[s].pc \in {"await_request", "receiving", "ack", "persist"}
ServerClosed(s) == server[s].pc \in {"done", "error", "killed"}
ClientClosed(s) == client[s].pc \in {"ok", "failed", "tls_failed"}

\* a frame written to a peer that has left reaches nobody
ToServer(s, queue, m) == IF ServerClosed(s) THEN queue ELSE Append(queue, m)
ToClient(s, queue, m) == IF ClientClosed(s) THEN queue ELSE Append(queue, m)

\* no connection yet, an empty transfer_state
SessionsInit ==
    /\ rows = <<>>
    /\ client = [s \in Sessions |-> ClientIdle]
    /\ server = [s \in Sessions |-> ServerIdle]
    /\ c2s = [s \in Sessions |-> <<>>]
    /\ s2c = [s \in Sessions |-> <<>>]
    /\ acksSent = [i \in TransferIds |-> 0]
    /\ appSent = [s \in Sessions |-> FALSE]

\* no discovery service has been created
LifecycleOff ==
    /\ services = <<>>
    /\ discovery_service = 0

\* a file of the certificate directory
NoFile == [exists |-> FALSE, bytes |-> <<>>]

\* no certificate is asked for
CertOff ==
    /\ certFile = NoFile
    /\ keyFile = NoFile
    /\ callers = <<>>
    /\ generated = 0
    /\ issued = {}
    /\ overlapped = FALSE

\* no transfer server was started
ListenOff == transfer_servers = <<>>

\* no file is hashed
HashOff ==
    /\ hash_calls = <<>>
    /\ hashed = <<>>

\* init_app has run once
SchemaReady ==
    /\ files_table = TRUE
    /\ init_calls = 1

\* no beacon is signed or verified
BeaconOff ==
    /\ signed = {}
    /\ verified = <<>>

\* the caller is not syncing a file
SyncIdle == [pc |-> "idle", path |-> "none", listed |-> "none", sent |-> "none"]

SyncOff == sync_caller = SyncIdle

\* no DiscoveryService object is in use
InstanceOff ==
    /\ is_running = FALSE
    /\ tasks = <<>>

\* nothing is framed
FramingOff ==
    /\ wire = <<>>
    /\ framed = <<>>
    /\ decoded = <<>>
    /\ reader = "off"

\* no file is watched and nothing is recorded
StoreOff ==
    /\ fs = <<>>
    /\ files = {}
    /\ watchers = <<>>
    /\ instance = 0
    /\ result = "none"

\* discovery has not been started
DiscoveryOff ==
    /\ now = StartTime
    /\ receiver = "off"
    /\ last_cleanup = StartTime
    /\ buffer = <<>>
    /\ src_addr = "none"
    /\ devices = <<>>
    /\ receivedAt = <<>>

\* Transfers by a client without a pin (trust on first use), for every file
\* size and every prior content of the destination path.
TransferInit ==
    /\ srcFile \in {FileOfSize(n) : n \in FileSizes}
    /\ destFile \in {[exists |-> FALSE, bytes |-> <<>>]}
                    \cup {[exists |-> TRUE, bytes |-> OldContent(n)] : n \in OldSizes}
    /\ initDest = destFile
    /\ tableExists \in BOOLEAN
    /\ serverCert = "derA"
    /\ clientPin = {}
    /\ SessionsInit
    /\ DiscoveryOff
    /\ StoreOff
    /\ LifecycleOff
    /\ InstanceOff
    /\ SyncOff
    /\ BeaconOff
    /\ SchemaReady
    /\ HashOff
    /\ ListenOff
    /\ CertOff
    /\ FramingOff

\* ----------------------------------------------------------------- client
\* Transfer ids are interchangeable UUIDs: the first connection's is "t1".
\* send_file draws a fresh one per call; a sender that retries a transfer
\* (spec 4.F, resume semantics) presents the id of an earlier connection.
IdAllowed(s, id) ==
    id = "t1" \/ \E r \in Sessions : r < s /\ client[r].pc # "idle"

\* whether a connection carrying id follows a session of id that a receiver
\* kill has cut
IsRetry(id) ==
    \E r \in Sessions : server[r].pc = "killed" /\ client[r].pc # "idle" /\ client[r].tid = id

\* send_file up to the TransferRequest: connect, TLS handshake with the
\* pinning verifier, then the request.  A failed handshake writes nothing.
ClientStart(s, id) ==
    /\ client[s].pc = "idle"
    /\ \A r \in Sessions : r < s => client[r].pc # "idle"
    /\ IdAllowed(s, id)
    /\ IF VerifyServerCert(clientPin, serverCert)
       THEN /\ client' = [client EXCEPT ![s] = [ClientIdle EXCEPT
                              !.pc = "await_accept", !.tid = id,
                              !.retry = IsRetry(id)]]
            /\ server' = [server EXCEPT ![s] = [ServerIdle EXCEPT !.pc = "await_request"]]
            /\ c2s' = [c2s EXCEPT ![s] = Append(@,
                           TransferRequest(id, Len(srcFile), TotalChunks(Len(srcFile))))]
            /\ appSent' = [appSent EXCEPT ![s] = TRUE]
       ELSE /\ client' = [client EXCEPT ![s] = ClientEnded([ClientIdle EXCEPT !.tid = id],
                                                             "tls_failed")]
            /\ server' = [server EXCEPT ![s] = ServerEnded(ServerIdle, "error")]
            /\ UNCHANGED <<c2s, appSent>>
    /\ UNCHANGED <<envVars, destFile, rows, s2c, acksSent,
                   discoveryVars, storeVars, lifecycleVars, framingVars, certVars, listenVars, hashVars, schemaVars, beaconVars, syncVars, instanceVars>>

\* a write on a connection whose peer is gone may still succeed or fail
ClientWriteOutcomes(s) == IF ServerClosed(s) THEN {TRUE, FALSE} ELSE {TRUE}

\* send_file_chunks, from the head of its for loop to the next read of the
\* stream: the next chunk is read and sent, or the loop is over and
\* send_file writes TransferComplete and returns Ok.  cl is the client's
\* state at the head of the loop.
ClientProceed(s, cl) ==
    \E written \in ClientWriteOutcomes(s) :
       IF ~written
       THEN /\ client' = [client EXCEPT ![s] = ClientEnded(cl, "failed")]
            /\ UNCHANGED <<c2s, appSent>>
       ELSE LET data == ReadChunk(srcFile, cl.pos) IN
            /\ appSent' = [appSent EXCEPT ![s] = TRUE]
            /\ IF cl.idx < TotalChunks(Len(srcFile)) /\ data # <<>>
               THEN /\ c2s' = [c2s EXCEPT ![s] = ToServer(s, @, ChunkData(cl.tid, cl.idx, data))]
                    /\ client' = [client EXCEPT ![s] = [cl EXCEPT !.pc = "await_ack",
                                      !.pos = @ + Len(data)]]
               ELSE /\ c2s' = [c2s EXCEPT ![s] = ToServer(s, @, TransferComplete(cl.tid))]
                    /\ client' = [client EXCEPT ![s] = [cl EXCEPT !.pc = "ok"]]

\* send_file: the reply to the request, then into send_file_chunks
ClientOnAccept(s) ==
    /\ client[s].pc = "await_accept"
    /\ s2c[s] # <<>>
    /\ LET m == Head(s2c[s]) IN
         IF m.type = "TransferAccept"
         THEN ClientProceed(s, [client[s] EXCEPT !.resume = m.resume_from_chunk,
                                   !.idx = m.resume_from_chunk,
                                   !.pos = SeekOffset(m.resume_from_chunk)])
         ELSE /\ client' = [client EXCEPT ![s] = ClientEnded(@, "failed")]
              /\ UNCHANGED <<c2s, appSent>>
    /\ s2c' = [s2c EXCEPT ![s] = IF client'[s].pc \in {"ok", "failed"} THEN <<>> ELSE Tail(@)]
    /\ UNCHANGED <<envVars, destFile, rows, server, acksSent,
                   discoveryVars, storeVars, lifecycleVars, framingVars, certVars, listenVars, hashVars, schemaVars, beaconVars, syncVars, instanceVars>>

\* a client that takes the ChunkAck of any chunk
AckMatchesAnyIndex(m, chunk_index) == m.type = "ChunkAck"

\* send_file_chunks: the reply is a ChunkAck and its index is the chunk's
AckMatches(m, chunk_index) == m.type = "ChunkAck" /\ m.chunk_index = chunk_index

\* send_file_chunks: the reply to a chunk, then the next iteration
ClientOnAck(s) ==
    /\ client[s].pc = "await_ack"
    /\ s2c[s] # <<>>
    /\ LET m == Head(s2c[s]) IN
         IF AckMatches(m, client[s].idx)
         THEN ClientProceed(s, [client[s] EXCEPT !.idx = @ + 1])
         ELSE /\ client' = [client EXCEPT ![s] = ClientEnded(@, "failed")]
              /\ UNCHANGED <<c2s, appSent>>
    /\ s2c' = [s2c EXCEPT ![s] = IF client'[s].pc \in {"ok", "failed"} THEN <<>> ELSE Tail(@)]
    /\ UNCHANGED <<envVars, destFile, rows, server, acksSent,
                   discoveryVars, storeVars, lifecycleVars, framingVars, certVars, listenVars, hashVars, schemaVars, beaconVars, syncVars, instanceVars>>

\* from_stream on a connection the server has left: an error
ClientEof(s) ==
    /\ client[s].pc \in {"await_accept", "await_ack"}
    /\ s2c[s] = <<>>
    /\ ServerClosed(s)
    /\ client' = [client EXCEPT ![s] = ClientEnded(@, "failed")]
    /\ UNCHANGED <<envVars, destFile, rows, server, c2s, s2c, acksSent, appSent,
                   discoveryVars, storeVars, lifecycleVars, framingVars, certVars, listenVars, hashVars, schemaVars, beaconVars, syncVars, instanceVars>>

\* ----------------------------------------------------------------- server
\* the state receive_file is in when it reaches the head of its while loop
LoopHead(sv) ==
    IF sv.received < sv.total THEN [sv EXCEPT !.pc = "receiving"]
    ELSE ServerEnded(sv, "done")

\* handle_client: the first frame, the resume lookup, the accept, and
\* receive_file up to its loop (open without truncation, seek)
SrvRequest(s) ==
    /\ server[s].pc = "await_request"
    /\ c2s[s] # <<>>
    /\ LET m == Head(c2s[s]) IN
       IF m.type = "TransferRequest" /\ tableExists
       THEN LET resume == GetResumeChunk(rows, m.transfer_id) IN
            /\ s2c' = [s2c EXCEPT ![s] = ToClient(s, @, TransferAccept(m.transfer_id, resume))]
            /\ destFile' = OpenCreate(destFile)
            /\ server' = [server EXCEPT ![s] = LoopHead([@ EXCEPT
                              !.tid = m.transfer_id, !.total = m.total_chunks,
                              !.received = resume, !.pos = SeekOffset(resume)])]
       ELSE /\ server' = [server EXCEPT ![s] = ServerEnded(@, "error")]
            /\ UNCHANGED <<s2c, destFile>>
    /\ c2s' = [c2s EXCEPT ![s] = IF server'[s].pc \in {"done", "error"} THEN <<>> ELSE Tail(@)]
    /\ UNCHANGED <<envVars, rows, client, acksSent, appSent,
                   discoveryVars, storeVars, lifecycleVars, framingVars, certVars, listenVars, hashVars, schemaVars, beaconVars, syncVars, instanceVars>>

\* a server that takes every chunk as it comes
VerifyChunkSkipped(m) == TRUE

\* receive_file: the SHA-256 of the data against the chunk_hash of the frame
VerifyChunk(m) == Sha256(m.data) = m.chunk_hash

\* receive_file: one frame read in the loop; a ChunkData is verified and
\* written at the file position, and received_chunks is incremented
SrvChunk(s) ==
    /\ server[s].pc = "receiving"
    /\ c2s[s] # <<>>
    /\ LET m == Head(c2s[s]) IN
         IF m.type = "ChunkData"
         THEN IF ~VerifyChunk(m)
              THEN /\ server' = [server EXCEPT ![s] = ServerEnded(@, "error")]
                   /\ UNCHANGED destFile
              ELSE /\ destFile' = [destFile EXCEPT
                                      !.bytes = WriteAt(@, server[s].pos, m.data)]
                   /\ server' = [server EXCEPT ![s] = [@ EXCEPT !.pc = "ack",
                                     !.cur_index = m.chunk_index,
                                     !.pos = @ + Len(m.data),
                                     !.received = @ + 1]]
         ELSE /\ server' = [server EXCEPT ![s] =
                     IF m.type = "TransferComplete" THEN ServerEnded(@, "done") ELSE @]
              /\ UNCHANGED destFile
    /\ c2s' = [c2s EXCEPT ![s] = IF server'[s].pc \in {"done", "error"} THEN <<>> ELSE Tail(@)]
    /\ UNCHANGED <<envVars, rows, client, s2c, acksSent, appSent,
                   discoveryVars, storeVars, lifecycleVars, framingVars, certVars, listenVars, hashVars, schemaVars, beaconVars, syncVars, instanceVars>>

\* receive_file: the ChunkAck, carrying the index of the frame
SrvAck(s) ==
    /\ server[s].pc = "ack"
    /\ s2c' = [s2c EXCEPT ![s] = ToClient(s, @, ChunkAck(server[s].tid, server[s].cur_index))]
    /\ acksSent' = [acksSent EXCEPT ![server[s].tid] = @ + 1]
    /\ server' = [server EXCEPT ![s] = [@ EXCEPT !.pc = "persist"]]
    /\ UNCHANGED <<envVars, destFile, rows, client, c2s, appSent,
                   discoveryVars, storeVars, lifecycleVars, framingVars, certVars, listenVars, hashVars, schemaVars, beaconVars, syncVars, instanceVars>>

\* receive_file: update_transfer_state, then back to the head of the loop
SrvPersist(s) ==
    /\ server[s].pc = "persist"
    /\ IF tableExists
       THEN /\ rows' = UpdateTransferState(rows, server[s].tid, server[s].received)
            /\ server' = [server EXCEPT ![s] = LoopHead(@)]
       ELSE /\ server' = [server EXCEPT ![s] = ServerEnded(@, "error")]
            /\ UNCHANGED rows
    /\ c2s' = [c2s EXCEPT ![s] = IF server'[s].pc \in {"done", "error"} THEN <<>> ELSE @]
    /\ UNCHANGED <<envVars, destFile, client, s2c, acksSent, appSent,
                   discoveryVars, storeVars, lifecycleVars, framingVars, certVars, listenVars, hashVars, schemaVars, beaconVars, syncVars, instanceVars>>

\* the TransferProgress both sides build once completed chunks are done:
\* bytes_transferred is the chunk count times CHUNK_SIZE
TransferProgress(transfer_id, total_chunks, completed, file_size) ==
    [transfer_id |-> transfer_id, total_chunks |-> total_chunks,
     completed_chunks |-> completed,
     bytes_transferred |-> completed * CHUNK_SIZE,
     total_bytes |-> file_size]

\* receive_file: the event sent after update_transfer_state, for the
\* file_size of the request
ServerProgress(sv, file_size) ==
    TransferProgress(sv.tid, sv.total, sv.received, file_size)

\* send_file_chunks: the event sent after the ChunkAck of chunk cl.idx
ClientProgress(cl, file_size) ==
    TransferProgress(cl.tid, TotalChunks(file_size), cl.idx + 1, file_size)

\* the receiver process is killed: every running handler stops where it is;
\* the destination file and pebble.db stay as they are
ReceiverKill ==
    /\ \E s \in Sessions : ServerLive(s)
    /\ server' = [s \in Sessions |->
                    IF ServerLive(s) THEN ServerEnded(server[s], "killed")
                    ELSE server[s]]
    /\ c2s' = [s \in Sessions |-> IF ServerLive(s) THEN <<>> ELSE c2s[s]]
    /\ UNCHANGED <<envVars, destFile, rows, client, s2c, acksSent, appSent,
                   discoveryVars, storeVars, lifecycleVars, framingVars, certVars, listenVars, hashVars, schemaVars, beaconVars, syncVars, instanceVars>>

TransferNext ==
    \/ \E s \in Sessions, id \in TransferIds : ClientStart(s, id)
    \/ \E s \in Sessions : ClientOnAccept(s)
    \/ \E s \in Sessions : ClientOnAck(s)
    \/ \E s \in Sessions : ClientEof(s)
    \/ \E s \in Sessions : SrvRequest(s)
    \/ \E s \in Sessions : SrvChunk(s)
    \/ \E s \in Sessions : SrvAck(s)
    \/ \E s \in Sessions : SrvPersist(s)
    \/ ReceiverKill

TransferSpec == TransferInit /\ [][TransferNext]_vars

\* ------------------------------------ sessions on a reliable connection
\* the received_chunks a row of transfer_state may hold when a session
\* starts: none, 0, less than the chunks of the file, as many, or more
StoredChunks == 0..(TotalChunks(MaxFileSize) + 1)

\* Sessions with nothing killed: every file size, and pebble.db as earlier
\* runs left it, with or without a row for the transfer id; the session
\* that wrote a row has also created the destination file
SessionInit ==
    /\ srcFile \in {FileOfSize(n) : n \in FileSizes}
    /\ tableExists \in BOOLEAN
    /\ serverCert = "derA"
    /\ clientPin = {}
    /\ rows \in {<<>>} \cup {[i \in {"t1"} |-> n] : n \in StoredChunks}
    /\ tableExists \/ rows = <<>>
    /\ destFile = IF rows = <<>> THEN [exists |-> FALSE, bytes |-> <<>>]
                  ELSE [exists |-> TRUE, bytes |-> OldContent(MaxFileSize + 1)]
    /\ initDest = destFile
    /\ client = [s \in Sessions |-> ClientIdle]
    /\ server = [s \in Sessions |-> ServerIdle]
    /\ c2s = [s \in Sessions |-> <<>>]
    /\ s2c = [s \in Sessions |-> <<>>]
    /\ acksSent = [i \in TransferIds |-> 0]
    /\ appSent = [s \in Sessions |-> FALSE]
    /\ DiscoveryOff
    /\ StoreOff
    /\ LifecycleOff
    /\ InstanceOff
    /\ SyncOff
    /\ BeaconOff
    /\ SchemaReady
    /\ HashOff
    /\ ListenOff
    /\ CertOff
    /\ FramingOff

\* the client has read the reply it waits for and its next write_all
\* returns an error
WriteRefused(s) ==
    /\ s2c[s] # <<>>
    /\ \/ client[s].pc = "await_accept" /\ Head(s2c[s]).type = "TransferAccept"
       \/ client[s].pc = "await_ack" /\ AckMatches(Head(s2c[s]), client[s].idx)
    /\ client'[s].pc = "failed"

\* the steps of send_file on a connection that loses and refuses nothing:
\* a frame written after the peer's orderly close is taken by the socket
ReliableOnAccept(s) == ClientOnAccept(s) /\ ~WriteRefused(s)
ReliableOnAck(s) == ClientOnAck(s) /\ ~WriteRefused(s)

\* the caller awaits one send_file before it calls the next; the handlers
\* of earlier connections may still be running
AwaitedStart(s, id) ==
    /\ \A r \in Sessions : r < s => ClientClosed(r)
    /\ ClientStart(s, id)

SessionNext ==
    \/ \E s \in Sessions, id \in TransferIds : AwaitedStart(s, id)
    \/ \E s \in Sessions : ReliableOnAccept(s)
    \/ \E s \in Sessions : ReliableOnAck(s)
    \/ \E s \in Sessions : ClientEof(s)
    \/ \E s \in Sessions : SrvRequest(s)
    \/ \E s \in Sessions : SrvChunk(s)
    \/ \E s \in Sessions : SrvAck(s)
    \/ \E s \in Sessions : SrvPersist(s)

SessionSpec == SessionInit /\ [][SessionNext]_vars

\* send_file is an async fn its caller awaits and handle_client a spawned
\* tokio task: each runs whenever the frame it reads has arrived or the
\* peer has closed, and the statements between two reads do not block.
\* Each side is one sequential task, so it is fair as a whole.
FairSessionSpec ==
    /\ SessionInit
    /\ [][SessionNext]_vars
    /\ \A s \in Sessions :
          /\ WF_vars(ReliableOnAccept(s) \/ ReliableOnAck(s) \/ ClientEof(s))
          /\ WF_vars(SrvRequest(s) \/ SrvChunk(s) \/ SrvAck(s) \/ SrvPersist(s))

\* the same sessions when the client's write to a server that has returned
\* may be refused
FairRefusingSpec ==
    /\ SessionInit
    /\ [][\/ \E s \in Sessions, id \in TransferIds : AwaitedStart(s, id)
          \/ \E s \in Sessions : ClientOnAccept(s) \/ ClientOnAck(s) \/ ClientEof(s)
          \/ \E s \in Sessions :
                SrvRequest(s) \/ SrvChunk(s) \/ SrvAck(s) \/ SrvPersist(s)]_vars
    /\ \A s \in Sessions :
          /\ WF_vars(ClientOnAccept(s) \/ ClientOnAck(s) \/ ClientEof(s))
          /\ WF_vars(SrvRequest(s) \/ SrvChunk(s) \/ SrvAck(s) \/ SrvPersist(s))

\* Handshakes of every pin against every leaf, with a file of at most two
\* chunks into a fresh destination.
PinningInit ==
    /\ srcFile \in {FileOfSize(n) : n \in {0, CHUNK_SIZE + 1}}
    /\ destFile = [exists |-> FALSE, bytes |-> <<>>]
    /\ initDest = destFile
    /\ tableExists = TRUE
    /\ serverCert \in CertDers
    /\ clientPin \in {{}} \cup {{Fingerprint(d)} : d \in CertDers}
    /\ SessionsInit
    /\ DiscoveryOff
    /\ StoreOff
    /\ LifecycleOff
    /\ InstanceOff
    /\ SyncOff
    /\ BeaconOff
    /\ SchemaReady
    /\ HashOff
    /\ ListenOff
    /\ CertOff
    /\ FramingOff

PinningSpec == PinningInit /\ [][TransferNext]_vars

\* ------------------------------------------------- server against any peer
\* The transfer server reads whatever frames a connected peer writes: the
\* peer below writes any frame at any time, which a program other than
\* send_file can do.

\* the file the peer announces: two chunks, the second a short one
PeerFile == FileOfSize(CHUNK_SIZE + 1)

PeerChunk(index) == ReadChunk(PeerFile, index * CHUNK_SIZE)

\* a frame whose chunk_hash is the digest of other data
Corrupted(m) == [m EXCEPT !.chunk_hash = Sha256(<<>>)]

ErrorMessage(id) == [type |-> "Error", transfer_id |-> id, message |-> "m"]

TransferReject(id) == [type |-> "TransferReject", transfer_id |-> id, reason |-> "r"]

PeerFrames ==
    {TransferRequest("t1", Len(PeerFile), TotalChunks(Len(PeerFile))),
     TransferComplete("t1"), ChunkAck("t1", 0), ErrorMessage("t1"),
     TransferReject("t1")}
    \cup {ChunkData("t1", i, PeerChunk(i)) : i \in 0..(TotalChunks(Len(PeerFile)) - 1)}
    \cup {Corrupted(ChunkData("t1", i, PeerChunk(i))) :
              i \in 0..(TotalChunks(Len(PeerFile)) - 1)}

\* a peer has connected to the server on connection 1 and has completed the
\* TLS handshake; the destination is new or holds an older file
PeerInit ==
    /\ srcFile = PeerFile
    /\ destFile \in {[exists |-> FALSE, bytes |-> <<>>],
                     [exists |-> TRUE, bytes |-> OldContent(MaxFileSize)]}
    /\ initDest = destFile
    /\ tableExists = TRUE
    /\ serverCert = "derA"
    /\ clientPin = {}
    /\ rows = <<>>
    /\ client = [s \in Sessions |->
                    IF s = 1 THEN [ClientIdle EXCEPT !.pc = "peer"] ELSE ClientIdle]
    /\ server = [s \in Sessions |->
                    IF s = 1 THEN [ServerIdle EXCEPT !.pc = "await_request"]
                    ELSE ServerIdle]
    /\ c2s = [s \in Sessions |-> <<>>]
    /\ s2c = [s \in Sessions |-> <<>>]
    /\ acksSent = [i \in TransferIds |-> 0]
    /\ appSent = [s \in Sessions |-> FALSE]
    /\ DiscoveryOff
    /\ StoreOff
    /\ LifecycleOff
    /\ InstanceOff
    /\ SyncOff
    /\ BeaconOff
    /\ SchemaReady
    /\ HashOff
    /\ ListenOff
    /\ CertOff
    /\ FramingOff

\* the peer writes a frame once the server has read the one before
PeerSend(s, m) ==
    /\ client[s].pc = "peer"
    /\ ServerLive(s)
    /\ c2s[s] = <<>>
    /\ c2s' = [c2s EXCEPT ![s] = Append(@, m)]
    /\ UNCHANGED <<envVars, destFile, rows, client, server, s2c, acksSent, appSent,
                   discoveryVars, storeVars, lifecycleVars, framingVars, certVars, listenVars, hashVars, schemaVars, beaconVars, syncVars, instanceVars>>

\* the peer reads a frame of the server
PeerRead(s) ==
    /\ client[s].pc = "peer"
    /\ s2c[s] # <<>>
    /\ s2c' = [s2c EXCEPT ![s] = Tail(@)]
    /\ UNCHANGED <<envVars, destFile, rows, client, server, c2s, acksSent, appSent,
                   discoveryVars, storeVars, lifecycleVars, framingVars, certVars, listenVars, hashVars, schemaVars, beaconVars, syncVars, instanceVars>>

PeerNext ==
    \/ \E s \in Sessions, m \in PeerFrames : PeerSend(s, m)
    \/ \E s \in Sessions : PeerRead(s)
    \/ \E s \in Sessions : SrvRequest(s)
    \/ \E s \in Sessions : SrvChunk(s)
    \/ \E s \in Sessions : SrvAck(s)
    \/ \E s \in Sessions : SrvPersist(s)

PeerSpec == PeerInit /\ [][PeerNext]_vars

\* ------------------------------------------------- client against any peer
\* send_file reads whatever frames the program it has connected to writes:
\* the peer below answers with any frame at any time.

PeerReplies ==
    {TransferAccept("t1", r) : r \in 0..(TotalChunks(MaxFileSize) + 1)}
    \cup {ChunkAck(id, i) : id \in TransferIds, i \in 0..TotalChunks(MaxFileSize)}
    \cup {TransferReject("t1"), ErrorMessage("t1"), TransferComplete("t1")}

\* send_file has a file to send and no pin; no server of this program runs
ClientPeerInit ==
    /\ srcFile \in {FileOfSize(n) : n \in FileSizes}
    /\ destFile = [exists |-> FALSE, bytes |-> <<>>]
    /\ initDest = destFile
    /\ tableExists = FALSE
    /\ serverCert = "derA"
    /\ clientPin = {}
    /\ SessionsInit
    /\ DiscoveryOff
    /\ StoreOff
    /\ LifecycleOff
    /\ InstanceOff
    /\ SyncOff
    /\ BeaconOff
    /\ SchemaReady
    /\ HashOff
    /\ ListenOff
    /\ CertOff
    /\ FramingOff

\* the peer writes a frame to the client
PeerReply(s, m) ==
    /\ server[s].pc = "await_request"
    /\ Len(s2c[s]) < MaxReplies
    /\ s2c' = [s2c EXCEPT ![s] = ToClient(s, @, m)]
    /\ UNCHANGED <<envVars, destFile, rows, client, server, c2s, acksSent, appSent,
                   discoveryVars, storeVars, lifecycleVars, framingVars, certVars, listenVars, hashVars, schemaVars, beaconVars, syncVars, instanceVars>>

\* the peer reads a frame of the client
PeerTake(s) ==
    /\ server[s].pc = "await_request"
    /\ c2s[s] # <<>>
    /\ c2s' = [c2s EXCEPT ![s] = Tail(@)]
    /\ UNCHANGED <<envVars, destFile, rows, client, server, s2c, acksSent, appSent,
                   discoveryVars, storeVars, lifecycleVars, framingVars, certVars, listenVars, hashVars, schemaVars, beaconVars, syncVars, instanceVars>>

\* the peer closes the connection
PeerClose(s) ==
    /\ server[s].pc = "await_request"
    /\ server' = [server EXCEPT ![s] = ServerEnded(@, "error")]
    /\ c2s' = [c2s EXCEPT ![s] = <<>>]
    /\ UNCHANGED <<envVars, destFile, rows, client, s2c, acksSent, appSent,
                   discoveryVars, storeVars, lifecycleVars, framingVars, certVars, listenVars, hashVars, schemaVars, beaconVars, syncVars, instanceVars>>

ClientPeerNext ==
    \/ ClientStart(1, "t1")
    \/ ClientOnAccept(1)
    \/ ClientOnAck(1)
    \/ ClientEof(1)
    \/ \E m \in PeerReplies : PeerReply(1, m)
    \/ PeerTake(1)
    \/ PeerClose(1)

ClientPeerSpec == ClientPeerInit /\ [][ClientPeerNext]_vars

\* -------------------------------------------------------------- discovery
\* Strings are sequences of characters.
OwnDeviceId == <<"a">>
PeerDeviceId == <<"b">>
DeviceIds == {OwnDeviceId, PeerDeviceId}
DeviceName(id) == <<"n">> \o id
PROTOCOL_VERSION == <<"1", ".", "0", ".", "0">>
SecretKey == "psk"
Keys == {"psk", "other"}

\* u64 addition: a release build wraps, a debug build panics on overflow
WrappingAdd(a, b) == (a + b) % (U64_MAX + 1)
Overflows(a, b) == a + b > U64_MAX

\* Display of a u64: its decimal digits
RECURSIVE Decimal(_)
Decimal(n) ==
    LET digit == <<"0", "1", "2", "3", "4", "5", "6", "7", "8", "9">>[(n % 10) + 1] IN
    IF n < 10 THEN <<digit>> ELSE Decimal(n \div 10) \o <<digit>>

\* format!("{}{}{}{}", device_id, device_name, timestamp, protocol_version)
DataToSign(device_id, device_name, timestamp, protocol_version) ==
    device_id \o device_name \o Decimal(timestamp) \o protocol_version

\* hex(HMAC-SHA256(secret_key, data)): equal only for equal key and data
GenerateSignature(data, secret_key) == <<"hmac-sha256", secret_key, data>>

\* BeaconMessage::new on a sender whose clock reads timestamp
BeaconNew(device_id, device_name, secret_key, timestamp) ==
    [device_id |-> device_id, device_name |-> device_name,
     timestamp |-> timestamp, protocol_version |-> PROTOCOL_VERSION,
     signature |-> GenerateSignature(
                      DataToSign(device_id, device_name, timestamp, PROTOCOL_VERSION),
                      secret_key)]

\* a verification that leaves out the timestamp test
VerifySignatureOnly(beacon, secret_key, current_time, limit) ==
    GenerateSignature(DataToSign(beacon.device_id, beacon.device_name,
                                 beacon.timestamp, beacon.protocol_version),
                      secret_key) = beacon.signature

\* a verification that leaves out the signature test
VerifyFreshnessOnly(beacon, secret_key, current_time, limit) ==
    ~(current_time > limit)

\* BeaconMessage::verify once limit = timestamp + 30 has been computed
VerifyAgainst(beacon, secret_key, current_time, limit) ==
    IF current_time > limit THEN FALSE
    ELSE GenerateSignature(DataToSign(beacon.device_id, beacon.device_name,
                                      beacon.timestamp, beacon.protocol_version),
                           secret_key) = beacon.signature

\* BeaconMessage::verify: the outcomes a build can produce, "valid" for
\* Ok(true), "invalid" for Ok(false), "panic" for an overflow of
\* timestamp + 30 under overflow checks
Verify(beacon, secret_key, current_time) ==
    LET wrapped == IF VerifyAgainst(beacon, secret_key, current_time,
                                    WrappingAdd(beacon.timestamp, REPLAY_WINDOW_SECS))
                   THEN "valid" ELSE "invalid" IN
    IF Overflows(beacon.timestamp, REPLAY_WINDOW_SECS)
    THEN {wrapped, "panic"} ELSE {wrapped}

\* a timeout test that fires as soon as the timeout is reached
IsTimeoutAtTimeout(last_seen, current_time) ==
    current_time >= last_seen + DEVICE_TIMEOUT_SECS

\* DiscoveredDevice::is_timeout
IsTimeout(last_seen, current_time) ==
    current_time > last_seen + DEVICE_TIMEOUT_SECS

\* an upsert that replaces the entry by a new one on every accepted beacon
UpsertReplace(table, beacon, ip_address) ==
    [d \in (DOMAIN table) \cup {beacon.device_id} |->
        IF d = beacon.device_id
        THEN [device_id |-> beacon.device_id, device_name |-> beacon.device_name,
              ip_address |-> ip_address,
              protocol_version |-> beacon.protocol_version,
              last_seen |-> beacon.timestamp, is_online |-> TRUE]
        ELSE table[d]]

\* beacon_receiver on an accepted beacon: update_last_seen on the entry of
\* the device_id, or the insert of DiscoveredDevice::new
Upsert(table, beacon, ip_address) ==
    [d \in (DOMAIN table) \cup {beacon.device_id} |->
        IF d = beacon.device_id
        THEN IF d \in DOMAIN table
             THEN [table[d] EXCEPT !.last_seen = beacon.timestamp, !.is_online = TRUE]
             ELSE [device_id |-> beacon.device_id, device_name |-> beacon.device_name,
                   ip_address |-> ip_address,
                   protocol_version |-> beacon.protocol_version,
                   last_seen |-> beacon.timestamp, is_online |-> TRUE]
        ELSE table[d]]

\* cleanup_timeout_devices: retain the entries that have not timed out
CleanupTimeoutDevices(table, current_time) ==
    [d \in {e \in DOMAIN table : ~IsTimeout(table[e].last_seen, current_time)} |->
        table[d]]

\* The datagrams that may reach the socket when the receiver's clock reads
\* clock: a beacon of the peer, signed under either key by a sender whose
\* clock was behind (a delayed or replayed beacon), equal or ahead; one with
\* the largest timestamp; the receiver's own beacon; bytes that are not a
\* beacon.
SrcAddrs == {"10.0.0.2", "10.0.0.3"}
BeaconAges == {REPLAY_WINDOW_SECS + 1, REPLAY_WINDOW_SECS, 0, -2}
Datagrams(clock) ==
    {BeaconNew(PeerDeviceId, DeviceName(PeerDeviceId), key, ts) :
        key \in Keys, ts \in {clock - a : a \in BeaconAges} \cup {U64_MAX}}
    \cup {BeaconNew(OwnDeviceId, DeviceName(OwnDeviceId), SecretKey, clock)}
    \cup {[malformed |-> TRUE]}

\* A datagram with its UDP source: the peer's beacons under the shared key
\* come from either address, everything else from the first.
Arrivals(clock) ==
    {<<dgram, src>> \in Datagrams(clock) \X SrcAddrs :
        \/ src = "10.0.0.2"
        \/ /\ "device_id" \in DOMAIN dgram
           /\ dgram.device_id = PeerDeviceId
           /\ dgram.signature[2] = SecretKey}

DiscoveryInit ==
    /\ now = StartTime
    /\ receiver = "running"
    /\ last_cleanup = StartTime
    /\ buffer = <<>>
    /\ src_addr = "none"
    /\ devices = <<>>
    /\ receivedAt = <<>>
    /\ srcFile = <<>>
    /\ destFile = [exists |-> FALSE, bytes |-> <<>>]
    /\ initDest = destFile
    /\ tableExists = FALSE
    /\ serverCert = "derA"
    /\ clientPin = {}
    /\ SessionsInit
    /\ StoreOff
    /\ LifecycleOff
    /\ InstanceOff
    /\ SyncOff
    /\ BeaconOff
    /\ SchemaReady
    /\ HashOff
    /\ ListenOff
    /\ CertOff
    /\ FramingOff

\* A second passes.  The receiver's loop runs ten times a second and makes
\* a cleanup pass once last_cleanup.elapsed() >= 5 s, measured below the
\* second: in whole seconds a pass comes 5 or 6 after the one before.
Tick ==
    /\ now < StartTime + MaxElapsed
    /\ receiver = "running" => now - last_cleanup <= CLEANUP_INTERVAL_SECS
    /\ now' = now + 1
    /\ buffer' = <<>>
    /\ src_addr' = "none"
    /\ UNCHANGED <<receiver, last_cleanup, devices, receivedAt, transferVars, storeVars, lifecycleVars, framingVars, certVars, listenVars, hashVars, schemaVars, beaconVars, syncVars, instanceVars>>

\* beacon_receiver: the cleanup pass
ReaperPass ==
    /\ receiver = "running"
    /\ now - last_cleanup >= CLEANUP_INTERVAL_SECS
    /\ devices' = CleanupTimeoutDevices(devices, now)
    /\ last_cleanup' = now
    /\ UNCHANGED <<now, receiver, buffer, src_addr, receivedAt, transferVars, storeVars, lifecycleVars, framingVars, certVars, listenVars, hashVars, schemaVars, beaconVars, syncVars, instanceVars>>

\* beacon_receiver: one datagram read and handled
ReceiveDatagram(dgram, src) ==
    /\ receiver = "running"
    /\ buffer' = <<dgram>>
    /\ src_addr' = src
    /\ IF "device_id" \notin DOMAIN dgram \/ dgram.device_id = OwnDeviceId
       THEN UNCHANGED <<receiver, devices, receivedAt>>
       ELSE \E is_valid \in Verify(dgram, SecretKey, now) :
              CASE is_valid = "panic" ->
                     /\ receiver' = "panicked"
                     /\ UNCHANGED <<devices, receivedAt>>
                [] is_valid = "invalid" ->
                     UNCHANGED <<receiver, devices, receivedAt>>
                [] is_valid = "valid" ->
                     /\ devices' = Upsert(devices, dgram, src)
                     /\ receivedAt' = [d \in (DOMAIN receivedAt) \cup {dgram.device_id} |->
                                          IF d = dgram.device_id THEN now ELSE receivedAt[d]]
                     /\ UNCHANGED receiver
    /\ UNCHANGED <<now, last_cleanup, transferVars, storeVars, lifecycleVars, framingVars, certVars, listenVars, hashVars, schemaVars, beaconVars, syncVars, instanceVars>>

DiscoveryNext ==
    \/ Tick
    \/ ReaperPass
    \/ \E arrival \in Arrivals(now) : ReceiveDatagram(arrival[1], arrival[2])

DiscoverySpec == DiscoveryInit /\ [][DiscoveryNext]_vars

\* ------------------------------------- one DiscoveryService, its tasks
\* start(): bails when is_running is set; otherwise sets it and spawns a
\* beacon_sender and a beacon_receiver, which hold the same flag
ServiceStart ==
    /\ ~is_running
    /\ Len(tasks) < MaxStarts
    /\ is_running' = TRUE
    /\ tasks' = Append(tasks, [sender |-> "waiting", receiver |-> "binding",
                               stopped |-> FALSE])
    /\ UNCHANGED <<transferVars, discoveryVars, storeVars, lifecycleVars, framingVars, certVars, listenVars, hashVars, schemaVars, beaconVars, syncVars>>

\* stop(): clears the flag; stopped records it for the tasks there are
ServiceStop ==
    /\ is_running' = FALSE
    /\ tasks' = [i \in DOMAIN tasks |-> [tasks[i] EXCEPT !.stopped = TRUE]]
    /\ UNCHANGED <<transferVars, discoveryVars, storeVars, lifecycleVars, framingVars, certVars, listenVars, hashVars, schemaVars, beaconVars, syncVars>>

\* beacon_sender: an interval tick completes, the sender reads the flag
BeaconSenderTick(i) ==
    /\ tasks[i].sender = "waiting"
    /\ tasks' = [tasks EXCEPT ![i].sender =
                    IF is_running THEN "sending" ELSE "exited"]
    /\ UNCHANGED <<is_running, transferVars, discoveryVars, storeVars, lifecycleVars, framingVars, certVars, listenVars, hashVars, schemaVars, beaconVars, syncVars>>

\* beacon_sender: the beacon is built and broadcast
BeaconSenderSend(i) ==
    /\ tasks[i].sender = "sending"
    /\ tasks' = [tasks EXCEPT ![i].sender = "waiting"]
    /\ UNCHANGED <<is_running, transferVars, discoveryVars, storeVars, lifecycleVars, framingVars, certVars, listenVars, hashVars, schemaVars, beaconVars, syncVars>>

\* beacon_receiver: the socket is bound (with SO_REUSEADDR, next to the
\* socket of an older receiver), or the bind fails and the task ends
BeaconReceiverBind(i, bound) ==
    /\ tasks[i].receiver = "binding"
    /\ tasks' = [tasks EXCEPT ![i].receiver =
                    IF bound THEN "sleeping" ELSE "failed"]
    /\ UNCHANGED <<is_running, transferVars, discoveryVars, storeVars, lifecycleVars, framingVars, certVars, listenVars, hashVars, schemaVars, beaconVars, syncVars>>

\* beacon_receiver: the 100 ms sleep ends, the receiver reads the flag
BeaconReceiverPoll(i) ==
    /\ tasks[i].receiver = "sleeping"
    /\ tasks' = [tasks EXCEPT ![i].receiver =
                    IF is_running THEN "receiving" ELSE "exited"]
    /\ UNCHANGED <<is_running, transferVars, discoveryVars, storeVars, lifecycleVars, framingVars, certVars, listenVars, hashVars, schemaVars, beaconVars, syncVars>>

\* beacon_receiver: the rest of the iteration
BeaconReceiverRecv(i) ==
    /\ tasks[i].receiver = "receiving"
    /\ tasks' = [tasks EXCEPT ![i].receiver = "sleeping"]
    /\ UNCHANGED <<is_running, transferVars, discoveryVars, storeVars, lifecycleVars, framingVars, certVars, listenVars, hashVars, schemaVars, beaconVars, syncVars>>

\* DiscoveryService::new: the flag is clear and no task exists
ServiceInit ==
    /\ is_running = FALSE
    /\ tasks = <<>>
    /\ LifecycleOff
    /\ SyncOff
    /\ BeaconOff
    /\ SchemaReady
    /\ HashOff
    /\ ListenOff
    /\ CertOff
    /\ FramingOff
    /\ StoreOff
    /\ DiscoveryOff
    /\ srcFile = <<>>
    /\ destFile = <<>>
    /\ initDest = <<>>
    /\ tableExists = FALSE
    /\ rows = <<>>
    /\ serverCert = "derA"
    /\ clientPin = {}
    /\ SessionsInit

ServiceNext ==
    \/ ServiceStart
    \/ ServiceStop
    \/ \E i \in DOMAIN tasks : BeaconSenderTick(i)
    \/ \E i \in DOMAIN tasks : BeaconSenderSend(i)
    \/ \E i \in DOMAIN tasks, bound \in BOOLEAN : BeaconReceiverBind(i, bound)
    \/ \E i \in DOMAIN tasks : BeaconReceiverPoll(i)
    \/ \E i \in DOMAIN tasks : BeaconReceiverRecv(i)

ServiceSpec == ServiceInit /\ [][ServiceNext]_vars

\* ------------------------------------------------ signing and verifying
\* The fields a beacon may carry: device ids and names one of which ends
\* where the other goes on, and timestamps whose decimal digits go on from a
\* name that ends in a digit.
BeaconIds == {<<"b">>, <<"b", "n">>}
BeaconNames == {<<"n">>, <<"n", "1">>, <<"1">>}
BeaconTimestamps == {5, 15, StartTime}

\* the field tuple of a beacon
FieldsOf(beacon) ==
    <<beacon.device_id, beacon.device_name, beacon.timestamp,
      beacon.protocol_version>>

\* what may be given to verify: any fields, with the signature of a beacon
\* that was signed (seen on the network) or one made under another key
Presentable ==
    LET beacon(device_id, device_name, timestamp, signature) ==
            [device_id |-> device_id, device_name |-> device_name,
             timestamp |-> timestamp, protocol_version |-> PROTOCOL_VERSION,
             signature |-> signature] IN
    {beacon(device_id, device_name, timestamp, signature) :
        device_id \in BeaconIds, device_name \in BeaconNames,
        timestamp \in BeaconTimestamps,
        signature \in {s.signature : s \in signed}}
    \cup {BeaconNew(device_id, device_name, "other", timestamp) :
        device_id \in BeaconIds, device_name \in BeaconNames,
        timestamp \in BeaconTimestamps}

BeaconInit ==
    /\ signed = {}
    /\ verified = <<>>
    /\ DiscoveryOff
    /\ StoreOff
    /\ LifecycleOff
    /\ InstanceOff
    /\ SyncOff
    /\ SchemaReady
    /\ HashOff
    /\ ListenOff
    /\ CertOff
    /\ FramingOff
    /\ srcFile = <<>>
    /\ destFile = <<>>
    /\ initDest = <<>>
    /\ tableExists = FALSE
    /\ rows = <<>>
    /\ serverCert = "derA"
    /\ clientPin = {}
    /\ SessionsInit

\* BeaconMessage::new(device_id, device_name, secret_key) on a device whose
\* clock reads timestamp
SignBeacon(device_id, device_name, timestamp) ==
    /\ Cardinality(signed) < MaxSigned
    /\ signed' = signed \cup
           {BeaconNew(device_id, device_name, SecretKey, timestamp)}
    /\ UNCHANGED <<verified, transferVars, discoveryVars, storeVars, lifecycleVars, framingVars, certVars, listenVars, hashVars, schemaVars, syncVars, instanceVars>>

\* beacon.verify(secret_key) on a receiver whose clock reads StartTime
VerifyBeacon(beacon) ==
    /\ \E is_valid \in Verify(beacon, SecretKey, StartTime) :
           verified' = <<[beacon |-> beacon, is_valid |-> is_valid]>>
    /\ UNCHANGED <<signed, transferVars, discoveryVars, storeVars, lifecycleVars, framingVars, certVars, listenVars, hashVars, schemaVars, syncVars, instanceVars>>

BeaconNext ==
    \/ \E device_id \in BeaconIds, device_name \in BeaconNames,
          timestamp \in BeaconTimestamps :
           SignBeacon(device_id, device_name, timestamp)
    \/ \E beacon \in Presentable : VerifyBeacon(beacon)

BeaconSpec == BeaconInit /\ [][BeaconNext]_vars

\* ------------------------------------------------ file store and watcher

\* the directory that is watched and scanned, and the paths below it
WatchDirs == {"w"}

Paths == {"w/a", "w/c", "w/d"}

Parent(path) == "w"

\* the path whose file is created, modified and removed; "w/d" is a
\* directory and "w/c" a file that stays
FilePaths == {"w/a"}

Contents == {"x", "y"}

Absent == [kind |-> "absent"]

Directory == [kind |-> "dir"]

\* a regular file; its modification time (seconds) goes with the version
\* of its content
RegularFile(content) ==
    [kind |-> "file", content |-> content,
     mtime |-> IF content = "x" THEN 1 ELSE 2]

\* Path::exists() && Path::is_file()
IsFile(fsys, path) == path \in DOMAIN fsys /\ fsys[path].kind = "file"

\* Path::exists() && Path::is_dir(), for the path given to a watcher
IsDir(fsys, path) == path \in WatchDirs

\* a hasher that keeps what it has digested before
CalculateFileHashSeeded(content) ==
    IF \A p \in DOMAIN hashed : hashed[p] = {} THEN "b3:x" ELSE "b3:y"

\* blake3 of the whole content, as lowercase hex: one digest per content
CalculateFileHash(content) == IF content = "x" THEN "b3:x" ELSE "b3:y"

FileMetadata(path, last_modified, file_hash, sync_status) ==
    [path |-> path, last_modified |-> last_modified,
     file_hash |-> file_hash, sync_status |-> sync_status]

\* SELECT ... WHERE path = ?1
GetFileMetadata(table, path) == {r \in table : r.path = path}

\* an upsert that always inserts a row
UpsertFileInsertOnly(table, file) == table \cup {file}

\* INSERT ... ON CONFLICT(path) DO UPDATE SET last_modified, file_hash,
\* sync_status
UpsertFile(table, file) ==
    IF GetFileMetadata(table, file.path) # {}
    THEN {IF r.path = file.path THEN file ELSE r : r \in table}
    ELSE table \cup {file}

\* SELECT path FROM files WHERE sync_status = 'Pending'
GetPendingFiles(table) == {r.path : r \in {q \in table : q.sync_status = "Pending"}}

\* the UPDATE of update_sync_status, and the rows it affects
RowsAffected(table, path) == Cardinality(GetFileMetadata(table, path))

\* an update that inserts a row for an unknown path
UpdateSyncStatusUpsert(table, path, status) ==
    IF GetFileMetadata(table, path) # {}
    THEN {IF r.path = path THEN [r EXCEPT !.sync_status = status] ELSE r :
              r \in table}
    ELSE table \cup {FileMetadata(path, 0, "", status)}

UpdateSyncStatus(table, path, status) ==
    {IF r.path = path THEN [r EXCEPT !.sync_status = status] ELSE r :
         r \in table}

\* the entries WalkDir yields below base_path that are regular files; a
\* base path that is itself a regular file yields itself, a missing one
\* yields nothing
Walk(fsys, base_path) ==
    IF base_path \in Paths
    THEN IF IsFile(fsys, base_path) THEN {base_path} ELSE {}
    ELSE {p \in Paths : Parent(p) = base_path /\ IsFile(fsys, p)}

\* a scan that leaves the rows that exist already as they are
ScanDirectoryNewOnly(table, fsys, base_path) ==
    table \cup
    {FileMetadata(p, fsys[p].mtime, "initial_scan", "Synced") :
         p \in {q \in Walk(fsys, base_path) : GetFileMetadata(table, q) = {}}}

RECURSIVE ScanEntries(_, _, _)
ScanEntries(table, fsys, entries) ==
    IF entries = {} THEN table
    ELSE LET p == CHOOSE q \in entries : TRUE
         IN  ScanEntries(
                 UpsertFile(table,
                     FileMetadata(p, fsys[p].mtime, "initial_scan", "Synced")),
                 fsys, entries \ {p})

ScanDirectory(table, fsys, base_path) ==
    ScanEntries(table, fsys, Walk(fsys, base_path))

\* the events of notify that handle_event tells apart
FileEvent(kind, path) == [kind |-> kind, path |-> path]

\* a watcher and its event-handling task
NewWatcher(dir) ==
    [dir |-> dir, active |-> TRUE, queue |-> <<>>, handler |-> "running"]

\* the watchers that have the path under their directory and still watch
Watching(path) ==
    {i \in DOMAIN watchers : watchers[i].active /\ watchers[i].dir = Parent(path)}

\* notify sends the event into the channel of every such watcher
Emit(kind, path) ==
    [i \in DOMAIN watchers |->
        IF i \in Watching(path)
        THEN [watchers[i] EXCEPT !.queue = Append(@, FileEvent(kind, path))]
        ELSE watchers[i]]

RECURSIVE QueuedIn(_, _)
QueuedIn(ws, n) == IF n = 0 THEN 0 ELSE Len(ws[n].queue) + QueuedIn(ws, n - 1)

RoomFor(path) ==
    QueuedIn(watchers, Len(watchers)) + Cardinality(Watching(path)) <= MaxQueue

\* the process has started and init_app has run: no watcher yet, the
\* files of the directory as they are
ProcessStart ==
    /\ fs = [p \in Paths |-> IF p = "w/d" THEN Directory ELSE RegularFile("x")]
    /\ watchers = <<>>
    /\ instance = 0
    /\ result = "none"
    /\ srcFile = <<>>
    /\ destFile = <<>>
    /\ initDest = <<>>
    /\ tableExists = FALSE
    /\ rows = <<>>
    /\ serverCert = "derA"
    /\ clientPin = {}
    /\ SessionsInit
    /\ DiscoveryOff
    /\ LifecycleOff
    /\ InstanceOff
    /\ SyncOff
    /\ BeaconOff
    /\ SchemaReady
    /\ HashOff
    /\ ListenOff
    /\ CertOff
    /\ FramingOff

\* pebble.db is new
StoreInit == ProcessStart /\ files = {}

\* pebble.db is the one an earlier run of the process left: it may hold a
\* record of the file, in any of the four statuses
PriorStores ==
    {{}} \cup {{FileMetadata("w/a", 1, "b3:x", s)} :
                  s \in {"Pending", "Synced", "Failed", "Deleted"}}

WatcherInit == ProcessStart /\ files \in PriorStores

\* a file is created under a watched or unwatched directory
FsCreate(path, content) ==
    /\ path \in FilePaths
    /\ fs[path].kind = "absent"
    /\ RoomFor(path)
    /\ fs' = [fs EXCEPT ![path] = RegularFile(content)]
    /\ watchers' = Emit("Created", path)
    /\ UNCHANGED <<files, instance, result, transferVars, discoveryVars, lifecycleVars, framingVars, certVars, listenVars, hashVars, schemaVars, beaconVars, syncVars, instanceVars>>

\* the data of a file changes
FsModify(path, content) ==
    /\ path \in FilePaths
    /\ fs[path].kind = "file"
    /\ fs[path].content # content
    /\ RoomFor(path)
    /\ fs' = [fs EXCEPT ![path] = RegularFile(content)]
    /\ watchers' = Emit("Modified", path)
    /\ UNCHANGED <<files, instance, result, transferVars, discoveryVars, lifecycleVars, framingVars, certVars, listenVars, hashVars, schemaVars, beaconVars, syncVars, instanceVars>>

\* a file is removed
FsRemove(path) ==
    /\ path \in FilePaths
    /\ fs[path].kind = "file"
    /\ RoomFor(path)
    /\ fs' = [fs EXCEPT ![path] = Absent]
    /\ watchers' = Emit("Removed", path)
    /\ UNCHANGED <<files, instance, result, transferVars, discoveryVars, lifecycleVars, framingVars, certVars, listenVars, hashVars, schemaVars, beaconVars, syncVars, instanceVars>>

\* the metadata of a file changes or the file is read: an event of a
\* kind that handle_event ignores
FsOther(path) ==
    /\ path \in FilePaths
    /\ fs[path].kind = "file"
    /\ Watching(path) # {}
    /\ RoomFor(path)
    /\ watchers' = Emit("Other", path)
    /\ UNCHANGED <<fs, files, instance, result, transferVars, discoveryVars, lifecycleVars, framingVars, certVars, listenVars, hashVars, schemaVars, beaconVars, syncVars, instanceVars>>

\* a handler that leaves the record of a deleted file as it is
ProcessFileEventKeepDeleted(table, fsys, event) ==
    CASE event.kind \in {"Created", "Modified"} ->
             IF ~IsFile(fsys, event.path) THEN table
             ELSE IF \E r \in table :
                        r.path = event.path /\ r.sync_status = "Deleted"
                  THEN table
                  ELSE UpsertFile(table,
                           FileMetadata(event.path, fsys[event.path].mtime,
                               CalculateFileHash(fsys[event.path].content),
                               "Pending"))
      [] event.kind = "Removed" ->
             IF GetFileMetadata(table, event.path) # {}
             THEN UpdateSyncStatus(table, event.path, "Deleted")
             ELSE table
      [] OTHER -> table

\* a handler that records every removal, with an empty hash
ProcessFileEventRecordRemoval(table, fsys, event) ==
    CASE event.kind \in {"Created", "Modified"} ->
             IF ~IsFile(fsys, event.path) THEN table
             ELSE UpsertFile(table,
                      FileMetadata(event.path, fsys[event.path].mtime,
                          CalculateFileHash(fsys[event.path].content),
                          "Pending"))
      [] event.kind = "Removed" ->
             UpsertFile(table, FileMetadata(event.path, 0, "", "Deleted"))
      [] OTHER -> table

\* process_file_event
ProcessFileEvent(table, fsys, event) ==
    CASE event.kind \in {"Created", "Modified"} ->
             IF ~IsFile(fsys, event.path) THEN table
             ELSE UpsertFile(table,
                      FileMetadata(event.path, fsys[event.path].mtime,
                          CalculateFileHash(fsys[event.path].content),
                          "Pending"))
      [] event.kind = "Removed" ->
             IF GetFileMetadata(table, event.path) # {}
             THEN UpdateSyncStatus(table, event.path, "Deleted")
             ELSE table
      [] OTHER -> table

\* the handler task of watcher i receives its next event and handles it
HandleEvent(i) ==
    /\ i \in DOMAIN watchers
    /\ watchers[i].handler = "running"
    /\ watchers[i].queue # <<>>
    /\ files' = ProcessFileEvent(files, fs, Head(watchers[i].queue))
    /\ watchers' = [watchers EXCEPT ![i].queue = Tail(@)]
    /\ UNCHANGED <<fs, instance, result, transferVars, discoveryVars, lifecycleVars, framingVars, certVars, listenVars, hashVars, schemaVars, beaconVars, syncVars, instanceVars>>

\* the channel of a dropped watcher is closed and empty: its task ends
HandlerExit(i) ==
    /\ i \in DOMAIN watchers
    /\ watchers[i].handler = "running"
    /\ ~watchers[i].active
    /\ watchers[i].queue = <<>>
    /\ watchers' = [watchers EXCEPT ![i].handler = "exited"]
    /\ UNCHANGED <<fs, files, instance, result, transferVars, discoveryVars, lifecycleVars, framingVars, certVars, listenVars, hashVars, schemaVars, beaconVars, syncVars, instanceVars>>

\* the paths a caller passes to the store
ApiPaths == {"w/a"}

\* what a caller may pass as the status, the second one outside the four
\* statuses of the store
StatusArgs == {"Failed", "Uploading"}

\* simple.rs record_file_change, with a time and a hash of the caller
RecordFileChange(path) ==
    /\ files' = UpsertFile(files, FileMetadata(path, 7, "caller", "Pending"))
    /\ UNCHANGED <<fs, watchers, instance, result, transferVars, discoveryVars, lifecycleVars, framingVars, certVars, listenVars, hashVars, schemaVars, beaconVars, syncVars, instanceVars>>

\* simple.rs update_file_status
UpdateFileStatus(path, status) ==
    /\ files' = UpdateSyncStatus(files, path, status)
    /\ result' = IF RowsAffected(files, path) = 0
                 THEN "QueryReturnedNoRows" ELSE "ok"
    /\ UNCHANGED <<fs, watchers, instance, transferVars, discoveryVars, lifecycleVars, framingVars, certVars, listenVars, hashVars, schemaVars, beaconVars, syncVars, instanceVars>>

\* what a caller may pass as the directory to watch: a directory, or a
\* path that is a regular file or missing
WatchPaths == {"w", "w/a"}

\* a replaced watcher that goes on watching
DropNothing(ws, i) == ws

\* the watcher stored in the global is dropped with its channel
Drop(ws, i) ==
    [j \in DOMAIN ws |-> IF j = i THEN [ws[j] EXCEPT !.active = FALSE] ELSE ws[j]]

\* simple.rs start_file_watcher: the scan, then start_watching, which
\* builds the new watcher with its handler task, stores it in the global
\* and drops the one the global held
StartFileWatcher(watch_path) ==
    /\ Len(watchers) < MaxWatchers
    /\ files' = ScanDirectory(files, fs, watch_path)
    /\ IF IsDir(fs, watch_path)
       THEN /\ watchers' = Append(Drop(watchers, instance), NewWatcher(watch_path))
            /\ instance' = Len(watchers) + 1
            /\ result' = "ok"
       ELSE /\ result' = "err"
            /\ UNCHANGED <<watchers, instance>>
    /\ UNCHANGED <<fs, transferVars, discoveryVars, lifecycleVars, framingVars, certVars, listenVars, hashVars, schemaVars, beaconVars, syncVars, instanceVars>>

\* simple.rs stop_file_watcher
StopFileWatcher ==
    /\ instance' = 0
    /\ watchers' = Drop(watchers, instance)
    /\ result' = "ok"
    /\ UNCHANGED <<fs, files, transferVars, discoveryVars, lifecycleVars, framingVars, certVars, listenVars, hashVars, schemaVars, beaconVars, syncVars, instanceVars>>

StoreNext ==
    \/ \E path \in Paths, content \in Contents : FsCreate(path, content)
    \/ \E path \in Paths, content \in Contents : FsModify(path, content)
    \/ \E path \in Paths : FsRemove(path)
    \/ \E path \in Paths : FsOther(path)
    \/ \E i \in DOMAIN watchers : HandleEvent(i)
    \/ \E i \in DOMAIN watchers : HandlerExit(i)
    \/ \E path \in ApiPaths : RecordFileChange(path)
    \/ \E path \in ApiPaths, status \in StatusArgs : UpdateFileStatus(path, status)
    \/ \E watch_path \in WatchPaths : StartFileWatcher(watch_path)
    \/ StopFileWatcher

StoreSpec == StoreInit /\ [][StoreNext]_vars

\* The caller of the store's API syncs a pending file: it takes a path from
\* get_pending_files, whose record has the hash listed, and sends the file
\* as it is at that moment ...
SyncTake(path) ==
    /\ sync_caller.pc = "idle"
    /\ path \in GetPendingFiles(files)
    /\ IsFile(fs, path)
    /\ sync_caller' = [pc |-> "sent", path |-> path,
                       listed |-> (CHOOSE r \in GetFileMetadata(files, path) : TRUE).file_hash,
                       sent |-> CalculateFileHash(fs[path].content)]
    /\ UNCHANGED <<storeVars, transferVars, discoveryVars, lifecycleVars, framingVars, certVars, listenVars, hashVars, schemaVars, beaconVars, instanceVars>>

\* ... and then calls update_file_status(path, "Synced")
SyncMark ==
    /\ sync_caller.pc = "sent"
    /\ files' = UpdateSyncStatus(files, sync_caller.path, "Synced")
    /\ result' = IF RowsAffected(files, sync_caller.path) = 0
                 THEN "QueryReturnedNoRows" ELSE "ok"
    /\ sync_caller' = SyncIdle
    /\ UNCHANGED <<fs, watchers, instance, transferVars, discoveryVars, lifecycleVars, framingVars, certVars, listenVars, hashVars, schemaVars, beaconVars, instanceVars>>

SyncNext ==
    \/ \E path \in Paths, content \in Contents : FsCreate(path, content)
    \/ \E path \in Paths, content \in Contents : FsModify(path, content)
    \/ \E path \in Paths : FsRemove(path)
    \/ \E i \in DOMAIN watchers : HandleEvent(i)
    \/ \E watch_path \in WatchDirs : StartFileWatcher(watch_path)
    \/ \E path \in ApiPaths : SyncTake(path)
    \/ SyncMark

SyncSpec == StoreInit /\ [][SyncNext]_vars

\* the watchers and the file system alone, with no call of the caller
\* into the store
WatcherNext ==
    \/ \E path \in Paths, content \in Contents : FsCreate(path, content)
    \/ \E path \in Paths, content \in Contents : FsModify(path, content)
    \/ \E path \in Paths : FsRemove(path)
    \/ \E path \in Paths : FsOther(path)
    \/ \E i \in DOMAIN watchers : HandleEvent(i)
    \/ \E i \in DOMAIN watchers : HandlerExit(i)
    \/ \E watch_path \in WatchPaths : StartFileWatcher(watch_path)
    \/ StopFileWatcher

\* The handler task of a watcher is a spawned tokio task that blocks in
\* recv(): the runtime runs it whenever its channel holds an event or is
\* closed.
FairWatcherSpec ==
    /\ WatcherInit
    /\ [][WatcherNext]_vars
    /\ \A i \in 1..MaxWatchers :
           WF_vars(HandleEvent(i)) /\ WF_vars(HandlerExit(i))

\* ----------------------------------------------- lifecycle of discovery

\* the peers whose beacons a receiver may accept
PeerIds == {"b"}

\* DiscoveryService::new followed by start(): is_running is set and the
\* two tasks are spawned; the sender waits in its first interval tick,
\* the receiver is about to bind its socket; sent tells whether the
\* service has broadcast a beacon
NewService ==
    [is_running |-> TRUE, sender |-> "waiting", receiver |-> "binding",
     discovered_devices |-> {}, sent |-> FALSE]

\* discovery.rs start_discovery, called by start_device_discovery: always
\* a new service, whose start() finds its own is_running false; the
\* global is overwritten, and the service it held keeps its is_running
\* and its tasks
StartDiscovery ==
    /\ Len(services) < MaxServices
    /\ services' = Append(services, NewService)
    /\ discovery_service' = Len(services) + 1
    /\ UNCHANGED <<transferVars, discoveryVars, storeVars, framingVars, certVars, listenVars, hashVars, schemaVars, beaconVars, syncVars, instanceVars>>

\* discovery.rs stop_discovery, called by stop_device_discovery
StopDiscovery ==
    /\ IF discovery_service # 0
       THEN services' = [services EXCEPT ![discovery_service].is_running = FALSE]
       ELSE UNCHANGED services
    /\ discovery_service' = 0
    /\ UNCHANGED <<transferVars, discoveryVars, storeVars, framingVars, certVars, listenVars, hashVars, schemaVars, beaconVars, syncVars, instanceVars>>

\* discovery.rs get_discovered_devices: the table of the service the
\* global holds, empty when it holds none
GetDiscoveredDevices ==
    IF discovery_service = 0 THEN {}
    ELSE services[discovery_service].discovered_devices

\* beacon_sender: an interval tick completes, the sender reads is_running
SenderTick(i) ==
    /\ i \in DOMAIN services
    /\ services[i].sender = "waiting"
    /\ services' = [services EXCEPT ![i].sender =
                       IF services[i].is_running THEN "sending" ELSE "exited"]
    /\ UNCHANGED <<discovery_service, transferVars, discoveryVars, storeVars, framingVars, certVars, listenVars, hashVars, schemaVars, beaconVars, syncVars, instanceVars>>

\* beacon_sender: the beacon is built and broadcast
SenderSend(i) ==
    /\ i \in DOMAIN services
    /\ services[i].sender = "sending"
    /\ services' = [services EXCEPT ![i].sender = "waiting", ![i].sent = TRUE]
    /\ UNCHANGED <<discovery_service, transferVars, discoveryVars, storeVars, framingVars, certVars, listenVars, hashVars, schemaVars, beaconVars, syncVars, instanceVars>>

\* beacon_receiver: the socket is bound to one of the two ports, or to
\* neither and the task ends with the error
ReceiverBind(i, bound) ==
    /\ i \in DOMAIN services
    /\ services[i].receiver = "binding"
    /\ services' = [services EXCEPT ![i].receiver =
                       IF bound THEN "sleeping" ELSE "failed"]
    /\ UNCHANGED <<discovery_service, transferVars, discoveryVars, storeVars, framingVars, certVars, listenVars, hashVars, schemaVars, beaconVars, syncVars, instanceVars>>

\* beacon_receiver: the 100 ms sleep ends, the receiver reads is_running
ReceiverPoll(i) ==
    /\ i \in DOMAIN services
    /\ services[i].receiver = "sleeping"
    /\ services' = [services EXCEPT ![i].receiver =
                       IF services[i].is_running THEN "receiving" ELSE "exited"]
    /\ UNCHANGED <<discovery_service, transferVars, discoveryVars, storeVars, framingVars, certVars, listenVars, hashVars, schemaVars, beaconVars, syncVars, instanceVars>>

\* beacon_receiver: the rest of the iteration, which leaves the table as
\* it is (no datagram, or one that is discarded), adds a peer (a beacon is
\* accepted) or removes the peers (they have timed out)
ReceiverProcess(i, table) ==
    /\ i \in DOMAIN services
    /\ services[i].receiver = "receiving"
    /\ services' = [services EXCEPT ![i].receiver = "sleeping",
                                    ![i].discovered_devices = table]
    /\ UNCHANGED <<discovery_service, transferVars, discoveryVars, storeVars, framingVars, certVars, listenVars, hashVars, schemaVars, beaconVars, syncVars, instanceVars>>

LifecycleInit ==
    /\ LifecycleOff
    /\ InstanceOff
    /\ SyncOff
    /\ BeaconOff
    /\ SchemaReady
    /\ HashOff
    /\ ListenOff
    /\ CertOff
    /\ FramingOff
    /\ StoreOff
    /\ DiscoveryOff
    /\ srcFile = <<>>
    /\ destFile = <<>>
    /\ initDest = <<>>
    /\ tableExists = FALSE
    /\ rows = <<>>
    /\ serverCert = "derA"
    /\ clientPin = {}
    /\ SessionsInit

LifecycleNext ==
    \/ StartDiscovery
    \/ StopDiscovery
    \/ \E i \in DOMAIN services : SenderTick(i)
    \/ \E i \in DOMAIN services : SenderSend(i)
    \/ \E i \in DOMAIN services, bound \in BOOLEAN : ReceiverBind(i, bound)
    \/ \E i \in DOMAIN services : ReceiverPoll(i)
    \/ \E i \in DOMAIN services, table \in SUBSET PeerIds : ReceiverProcess(i, table)

LifecycleSpec == LifecycleInit /\ [][LifecycleNext]_vars

\* The two tasks of a service are spawned tokio tasks that wait on a
\* timer only (interval tick, sleep): the runtime runs each step of each.
FairLifecycleSpec ==
    /\ LifecycleSpec
    /\ \A i \in 1..MaxServices :
           /\ WF_vars(SenderTick(i))
           /\ WF_vars(SenderSend(i))
           /\ WF_vars(\E bound \in BOOLEAN : ReceiverBind(i, bound))
           /\ WF_vars(ReceiverPoll(i))
           /\ WF_vars(\E table \in SUBSET PeerIds : ReceiverProcess(i, table))

\* --------------------------------------------------------- message framing

\* put_u32 and read_u32 move a length of four bytes, the first the highest
PREFIX_LEN == 4

\* what "json.len() as u32" keeps of a length (2^32 in the program)
U32_RANGE == ByteValues ^ PREFIX_LEN

\* A byte of a payload is one unit of the JSON text: a brace, a bracket, a
\* comma, a quote, a key with its colon, a digit or a character.
\* serde_json escapes a quote and a backslash inside a string
RECURSIVE Escape(_)
Escape(s) ==
    IF s = <<>> THEN <<>>
    ELSE (IF Head(s) \in {"\"", "\\"} THEN <<"\\", Head(s)>> ELSE <<Head(s)>>)
         \o Escape(Tail(s))

JsonString(s) == <<"\"">> \o Escape(s) \o <<"\"">>

\* a Vec<u8> is written as an array of decimal numbers
RECURSIVE JsonElements(_)
JsonElements(data) ==
    IF data = <<>> THEN <<>>
    ELSE IF Len(data) = 1 THEN Decimal(data[1])
    ELSE Decimal(Head(data)) \o <<",">> \o JsonElements(Tail(data))

JsonArray(data) == <<"[">> \o JsonElements(data) \o <<"]">>

JsonField(key, value) == <<",", key, ":">> \o value

\* serde_json::to_vec of a TransferMessage: the tag "type" first, then the
\* fields of the variant in the order of their declaration
ToJson(m) ==
    <<"{", "type", ":">> \o JsonString(<<m.type>>)
    \o JsonField("transfer_id", JsonString(m.transfer_id))
    \o (CASE m.type = "TransferRequest" ->
                 JsonField("file_path", JsonString(m.file_path))
                 \o JsonField("file_size", Decimal(m.file_size))
                 \o JsonField("file_hash", JsonString(m.file_hash))
                 \o JsonField("total_chunks", Decimal(m.total_chunks))
          [] m.type = "TransferAccept" ->
                 JsonField("resume_from_chunk", Decimal(m.resume_from_chunk))
          [] m.type = "TransferReject" ->
                 JsonField("reason", JsonString(m.reason))
          [] m.type = "ChunkData" ->
                 JsonField("chunk_index", Decimal(m.chunk_index))
                 \o JsonField("chunk_hash", JsonString(m.chunk_hash))
                 \o JsonField("data", JsonArray(m.data))
          [] m.type = "ChunkAck" ->
                 JsonField("chunk_index", Decimal(m.chunk_index))
          [] m.type = "TransferComplete" -> <<>>
          [] m.type = "Error" ->
                 JsonField("message", JsonString(m.message)))
    \o <<"}">>

\* buf.put_u32(n): PREFIX_LEN bytes, big-endian
PutU32(n) ==
    [k \in 1..PREFIX_LEN |->
        Decimal((n \div (ByteValues ^ (PREFIX_LEN - k))) % ByteValues)[1]]

\* to_bytes: the length of the payload cast to u32, then the payload
ToBytes(m) == PutU32(Len(ToJson(m)) % U32_RANGE) \o ToJson(m)

ByteOf(c) == CHOOSE d \in 0..(ByteValues - 1) : Decimal(d) = <<c>>

\* the value of bytes of which the last is the lowest
RECURSIVE BigEndian(_)
BigEndian(bytes) ==
    IF bytes = <<>> THEN 0
    ELSE ByteOf(bytes[Len(bytes)])
         + ByteValues * BigEndian(SubSeq(bytes, 1, Len(bytes) - 1))

\* the value of bytes of which the first is the lowest
RECURSIVE LittleEndian(_)
LittleEndian(bytes) ==
    IF bytes = <<>> THEN 0
    ELSE ByteOf(Head(bytes)) + ByteValues * LittleEndian(Tail(bytes))

GetU32LittleEndian(bytes) == LittleEndian(bytes)

\* stream.read_u32() on the PREFIX_LEN bytes it has read: big-endian
GetU32(bytes) == BigEndian(bytes)

\* the messages that are framed: each of the seven kinds, strings with a
\* quote and with a backslash, and chunks up to OverflowLen bytes
FrameStrings == {<<"a">>, <<"\"", "a", "\\">>}

OverflowLen == U32_RANGE \div 2

FrameData == {[j \in 1..n |-> j % 10] : n \in {0, CHUNK_SIZE, OverflowLen}}

FrameMessages ==
    {[type |-> "TransferRequest", transfer_id |-> <<"t">>, file_path |-> p,
      file_size |-> n, file_hash |-> <<"h">>, total_chunks |-> TotalChunks(n)] :
        p \in FrameStrings, n \in {0, MaxFileSize}}
    \cup {[type |-> "TransferAccept", transfer_id |-> <<"t">>,
           resume_from_chunk |-> n] : n \in {0, 10}}
    \cup {[type |-> "TransferReject", transfer_id |-> <<"t">>, reason |-> r] :
              r \in FrameStrings}
    \cup {[type |-> "ChunkData", transfer_id |-> <<"t">>, chunk_index |-> 0,
           chunk_hash |-> <<"h">>, data |-> d] : d \in FrameData}
    \cup {[type |-> "ChunkAck", transfer_id |-> <<"t">>, chunk_index |-> n] :
              n \in {0, 11}}
    \cup {[type |-> "TransferComplete", transfer_id |-> <<"t">>]}
    \cup {[type |-> "Error", transfer_id |-> <<"t">>, message |-> r] :
              r \in FrameStrings}

\* serde_json::from_slice: the message whose JSON text the payload is, or
\* an error when the payload is the text of none
FromJson(payload) ==
    IF \E m \in FrameMessages : ToJson(m) = payload
    THEN [ok |-> TRUE, msg |-> CHOOSE m \in FrameMessages : ToJson(m) = payload]
    ELSE [ok |-> FALSE, msg |-> [type |-> "none"]]

\* from_stream on the bytes the stream holds: read_u32 and read_exact wait
\* for the bytes they need, then the payload is parsed
FromStream(bytes) ==
    IF Len(bytes) < PREFIX_LEN
    THEN [status |-> "pending", msg |-> [type |-> "none"], rest |-> bytes]
    ELSE LET msg_len == GetU32(SubSeq(bytes, 1, PREFIX_LEN)) IN
         IF Len(bytes) < PREFIX_LEN + msg_len
         THEN [status |-> "pending", msg |-> [type |-> "none"], rest |-> bytes]
         ELSE LET parsed == FromJson(SubSeq(bytes, PREFIX_LEN + 1, PREFIX_LEN + msg_len)) IN
              [status |-> IF parsed.ok THEN "ok" ELSE "err",
               msg    |-> parsed.msg,
               rest   |-> SubSeq(bytes, PREFIX_LEN + msg_len + 1, Len(bytes))]

FramingInit ==
    /\ wire = <<>>
    /\ framed = <<>>
    /\ decoded = <<>>
    /\ reader = "reading"
    /\ LifecycleOff
    /\ InstanceOff
    /\ SyncOff
    /\ BeaconOff
    /\ SchemaReady
    /\ HashOff
    /\ ListenOff
    /\ CertOff
    /\ StoreOff
    /\ DiscoveryOff
    /\ srcFile = <<>>
    /\ destFile = <<>>
    /\ initDest = <<>>
    /\ tableExists = FALSE
    /\ rows = <<>>
    /\ serverCert = "derA"
    /\ clientPin = {}
    /\ SessionsInit

\* stream.write_all(&msg.to_bytes()?)
WriteFrame(m) ==
    /\ Len(framed) < MaxFrames
    /\ wire' = wire \o ToBytes(m)
    /\ framed' = Append(framed, m)
    /\ UNCHANGED <<decoded, reader, transferVars, discoveryVars, storeVars, lifecycleVars, certVars, listenVars, hashVars, schemaVars, beaconVars, syncVars, instanceVars>>

\* TransferMessage::from_stream(&mut stream).await; the caller ends the
\* session on an error
ReadFrame ==
    /\ reader = "reading"
    /\ LET r == FromStream(wire) IN
         /\ r.status # "pending"
         /\ wire' = r.rest
         /\ IF r.status = "ok"
            THEN /\ decoded' = Append(decoded, r.msg)
                 /\ UNCHANGED reader
            ELSE /\ reader' = "failed"
                 /\ UNCHANGED decoded
    /\ UNCHANGED <<framed, transferVars, discoveryVars, storeVars, lifecycleVars, certVars, listenVars, hashVars, schemaVars, beaconVars, syncVars, instanceVars>>

FramingNext ==
    \/ \E m \in FrameMessages : WriteFrame(m)
    \/ ReadFrame

FramingSpec == FramingInit /\ [][FramingNext]_vars

\* ----------------------------------------------------- certificate manager

\* the public operations that call get_or_create_certificate
Callers == {"init_tls_certificate", "start_transfer_server"}

CertDeviceIds == {"idA", "idB"}

FileOf(bytes) == [exists |-> TRUE, bytes |-> bytes]

\* TlsCertificate::generate_self_signed: the n-th certificate generated has
\* a key pair of its own, hence a DER and a fingerprint of its own
GenerateSelfSigned(device_id, device_name, n) ==
    LET cert_der == <<"cert", device_id, device_name, n>> IN
    [cert_der |-> cert_der, key_der |-> <<"key", n>>,
     fingerprint |-> Fingerprint(cert_der)]

NoCertificate == [cert_der |-> <<>>, key_der |-> <<>>, fingerprint |-> <<>>]

\* a call: its position, its arguments, the certificate it holds, whether
\* it found both files, the files it has written, whether the files were
\* deleted while it ran
CallerIdle ==
    [pc |-> "idle", device_id |-> "none", device_name |-> "none",
     cert |-> NoCertificate, found |-> FALSE, wrote |-> 0, deleted |-> FALSE]

InProgress(c) == callers[c].pc \notin {"idle", "returned"}

CertInit ==
    /\ certFile = NoFile
    /\ keyFile = NoFile
    /\ callers = [c \in Callers |-> CallerIdle]
    /\ generated = 0
    /\ issued = {}
    /\ overlapped = FALSE
    /\ LifecycleOff
    /\ InstanceOff
    /\ SyncOff
    /\ BeaconOff
    /\ SchemaReady
    /\ HashOff
    /\ ListenOff
    /\ FramingOff
    /\ StoreOff
    /\ DiscoveryOff
    /\ srcFile = <<>>
    /\ destFile = <<>>
    /\ initDest = <<>>
    /\ tableExists = FALSE
    /\ rows = <<>>
    /\ serverCert = "derA"
    /\ clientPin = {}
    /\ SessionsInit

\* a public operation calls get_or_create_certificate(device_id, device_name)
GetOrCreateCall(c, device_id, device_name) ==
    /\ callers[c].pc \in {"idle", "returned"}
    /\ generated < MaxGenerated
    /\ callers' = [callers EXCEPT ![c] =
           [CallerIdle EXCEPT !.pc = "check", !.device_id = device_id,
                              !.device_name = device_name]]
    /\ overlapped' = (overlapped \/ \E d \in Callers \ {c} : InProgress(d))
    /\ UNCHANGED <<certFile, keyFile, generated, issued,
                   transferVars, discoveryVars, storeVars, lifecycleVars, framingVars, listenVars, hashVars, schemaVars, beaconVars, syncVars, instanceVars>>

\* if Path::new(&cert_path).exists() && Path::new(&key_path).exists()
ExistsBoth(c) ==
    /\ callers[c].pc = "check"
    /\ callers' = [callers EXCEPT
           ![c].found = certFile.exists /\ keyFile.exists,
           ![c].pc = IF certFile.exists /\ keyFile.exists
                     THEN "read_cert" ELSE "generate"]
    /\ UNCHANGED <<certFile, keyFile, generated, issued, overlapped,
                   transferVars, discoveryVars, storeVars, lifecycleVars, framingVars, listenVars, hashVars, schemaVars, beaconVars, syncVars, instanceVars>>

\* the call has ended with Ok(cert)
Returned(cl) == [cl EXCEPT !.pc = "returned"]

\* the call has ended with Err
Failed(cl) == [cl EXCEPT !.pc = "returned", !.cert = NoCertificate]

\* load_from_files: fs::read(cert_path) and the fingerprint of what it read
LoadCert(c) ==
    /\ callers[c].pc = "read_cert"
    /\ callers' = [callers EXCEPT ![c] =
           IF certFile.exists
           THEN [@ EXCEPT !.pc = "read_key",
                          !.cert = [cert_der |-> certFile.bytes, key_der |-> <<>>,
                                    fingerprint |-> Fingerprint(certFile.bytes)]]
           ELSE Failed(@)]
    /\ UNCHANGED <<certFile, keyFile, generated, issued, overlapped,
                   transferVars, discoveryVars, storeVars, lifecycleVars, framingVars, listenVars, hashVars, schemaVars, beaconVars, syncVars, instanceVars>>

\* the fingerprints returned by calls during which no file was deleted
Issue(cl) == IF cl.deleted THEN issued ELSE issued \cup {cl.cert.fingerprint}

\* load_from_files: fs::read(key_path), then Ok(Self { .. })
LoadKey(c) ==
    /\ callers[c].pc = "read_key"
    /\ IF keyFile.exists
       THEN /\ callers' = [callers EXCEPT ![c] =
                   Returned([@ EXCEPT !.cert.key_der = keyFile.bytes])]
            /\ issued' = Issue(callers[c])
       ELSE /\ callers' = [callers EXCEPT ![c] = Failed(@)]
            /\ UNCHANGED issued
    /\ UNCHANGED <<certFile, keyFile, generated, overlapped,
                   transferVars, discoveryVars, storeVars, lifecycleVars, framingVars, listenVars, hashVars, schemaVars, beaconVars, syncVars, instanceVars>>

\* fs::create_dir_all, then TlsCertificate::generate_self_signed
Generate(c) ==
    /\ callers[c].pc = "generate"
    /\ generated' = generated + 1
    /\ callers' = [callers EXCEPT ![c].pc = "write_cert",
           ![c].cert = GenerateSelfSigned(callers[c].device_id,
                                          callers[c].device_name, generated + 1)]
    /\ UNCHANGED <<certFile, keyFile, issued, overlapped,
                   transferVars, discoveryVars, storeVars, lifecycleVars, framingVars, listenVars, hashVars, schemaVars, beaconVars, syncVars, instanceVars>>

\* save_to_files: fs::write(cert_path, &self.cert_der)
SaveCert(c) ==
    /\ callers[c].pc = "write_cert"
    /\ certFile' = FileOf(callers[c].cert.cert_der)
    /\ callers' = [callers EXCEPT ![c].pc = "write_key", ![c].wrote = @ + 1]
    /\ UNCHANGED <<keyFile, generated, issued, overlapped,
                   transferVars, discoveryVars, storeVars, lifecycleVars, framingVars, listenVars, hashVars, schemaVars, beaconVars, syncVars, instanceVars>>

\* save_to_files: fs::write(key_path, &self.key_der), then Ok(cert)
SaveKey(c) ==
    /\ callers[c].pc = "write_key"
    /\ keyFile' = FileOf(callers[c].cert.key_der)
    /\ callers' = [callers EXCEPT ![c] = Returned([@ EXCEPT !.wrote = @ + 1])]
    /\ issued' = Issue(callers[c])
    /\ UNCHANGED <<certFile, generated, overlapped,
                   transferVars, discoveryVars, storeVars, lifecycleVars, framingVars, listenVars, hashVars, schemaVars, beaconVars, syncVars, instanceVars>>

\* delete_certificate: both files are removed if present
DeleteCertificate ==
    /\ certFile.exists \/ keyFile.exists
    /\ certFile' = NoFile
    /\ keyFile' = NoFile
    /\ issued' = {}
    /\ callers' = [c \in Callers |->
           IF InProgress(c) THEN [callers[c] EXCEPT !.deleted = TRUE] ELSE callers[c]]
    /\ UNCHANGED <<generated, overlapped,
                   transferVars, discoveryVars, storeVars, lifecycleVars, framingVars, listenVars, hashVars, schemaVars, beaconVars, syncVars, instanceVars>>

CertNext ==
    \/ \E c \in Callers, device_id \in CertDeviceIds :
           GetOrCreateCall(c, device_id, "name")
    \/ \E c \in Callers : ExistsBoth(c)
    \/ \E c \in Callers : LoadCert(c)
    \/ \E c \in Callers : LoadKey(c)
    \/ \E c \in Callers : Generate(c)
    \/ \E c \in Callers : SaveCert(c)
    \/ \E c \in Callers : SaveKey(c)
    \/ DeleteCertificate

CertSpec == CertInit /\ [][CertNext]_vars

\* The process ends while calls of get_or_create_certificate are running
\* (a crash or a kill): the calls are gone, the files stay as they are.
Crash ==
    /\ \E c \in Callers : InProgress(c)
    /\ callers' = [c \in Callers |-> CallerIdle]
    /\ UNCHANGED <<certFile, keyFile, generated, issued, overlapped,
                   transferVars, discoveryVars, storeVars, lifecycleVars, framingVars, listenVars, hashVars, schemaVars, beaconVars, syncVars, instanceVars>>

CrashCertNext == CertNext \/ Crash

CrashCertSpec == CertInit /\ [][CrashCertNext]_vars

\* ------------------------------------------------ start of transfer server

\* the default port of the transfer server
TRANSFER_PORT == 37846

\* a port other than the default
OtherPort == 40000

\* bind_port: Option<u16>, None as the empty set
BindPorts == {{}, {TRANSFER_PORT}, {OtherPort}}

\* bind_port.unwrap_or(TRANSFER_PORT)
UnwrapOr(bind_port, default) ==
    IF bind_port = {} THEN default ELSE CHOOSE p \in bind_port : TRUE

\* the ports on which a spawned TransferServer listens
ListeningPorts ==
    {transfer_servers[i].port :
        i \in {j \in DOMAIN transfer_servers : transfer_servers[j].pc = "listening"}}

ListenInit ==
    /\ transfer_servers = <<>>
    /\ fs = <<>>
    /\ files = {}
    /\ watchers = <<>>
    /\ instance = 0
    /\ result = "none"
    /\ LifecycleOff
    /\ InstanceOff
    /\ SyncOff
    /\ BeaconOff
    /\ SchemaReady
    /\ HashOff
    /\ CertOff
    /\ FramingOff
    /\ DiscoveryOff
    /\ srcFile = <<>>
    /\ destFile = <<>>
    /\ initDest = <<>>
    /\ tableExists = FALSE
    /\ rows = <<>>
    /\ serverCert = "derA"
    /\ clientPin = {}
    /\ SessionsInit

StartedOnPort(port) == <<"Ok", "Transfer server started on port", port>>

\* start_transfer_server(device_id, device_name, cert_dir, bind_port):
\* cert_ok is whether get_or_create_certificate gave a certificate.  The
\* server is spawned and Ok is returned without waiting for it.
StartTransferServer(bind_port, cert_ok) ==
    /\ Len(transfer_servers) < MaxServers
    /\ IF ~cert_ok
       THEN /\ result' = <<"Err", "Failed to load certificate", 0>>
            /\ UNCHANGED transfer_servers
       ELSE LET port == UnwrapOr(bind_port, TRANSFER_PORT) IN
            /\ transfer_servers' = Append(transfer_servers,
                   [port |-> port, pc |-> "spawned", returned |-> "Ok"])
            /\ result' = StartedOnPort(port)
    /\ UNCHANGED <<fs, files, watchers, instance, transferVars, discoveryVars,
                   lifecycleVars, framingVars, certVars, hashVars, schemaVars, beaconVars, syncVars, instanceVars>>

\* TransferServer::start up to its accept loop: build_server_config and
\* TcpListener::bind, which fails on a port that has a listener (in_use: a
\* listener of another process); the error is logged by the spawned task
ServerStart(i, config_ok, in_use) ==
    /\ i \in DOMAIN transfer_servers
    /\ transfer_servers[i].pc = "spawned"
    /\ transfer_servers' = [transfer_servers EXCEPT ![i].pc =
           IF config_ok /\ ~in_use /\ transfer_servers[i].port \notin ListeningPorts
           THEN "listening" ELSE "failed"]
    /\ UNCHANGED <<storeVars, transferVars, discoveryVars,
                   lifecycleVars, framingVars, certVars, hashVars, schemaVars, beaconVars, syncVars, instanceVars>>

ListenNext ==
    \/ \E bind_port \in BindPorts, cert_ok \in BOOLEAN :
           StartTransferServer(bind_port, cert_ok)
    \/ \E i \in DOMAIN transfer_servers, config_ok \in BOOLEAN, in_use \in BOOLEAN :
           ServerStart(i, config_ok, in_use)

ListenSpec == ListenInit /\ [][ListenNext]_vars

\* ------------------------------------------------------------- file hash

\* the callers of calculate_file_hash (send_file, the watcher's handler)
HashCallers == {"h1", "h2"}

\* the paths hashed: a file that changes, a directory, a path that never
\* exists
HashPaths == {"w/a", "w/d", "w/none"}

\* what a path is: absent when the file system has no entry for it
EntryAt(fsys, path) == IF path \in DOMAIN fsys THEN fsys[path] ELSE Absent

HashCallIdle ==
    [pc |-> "idle", path |-> "none", entry |-> Absent, changed |-> FALSE,
     ok |-> FALSE, value |-> "none"]

HashInit ==
    /\ fs = [p \in Paths |-> IF p = "w/d" THEN Directory ELSE RegularFile("x")]
    /\ files = {}
    /\ watchers = <<>>
    /\ instance = 0
    /\ result = "none"
    /\ hash_calls = [c \in HashCallers |-> HashCallIdle]
    /\ hashed = [p \in HashPaths |-> {}]
    /\ LifecycleOff
    /\ InstanceOff
    /\ SyncOff
    /\ BeaconOff
    /\ SchemaReady
    /\ ListenOff
    /\ CertOff
    /\ FramingOff
    /\ DiscoveryOff
    /\ srcFile = <<>>
    /\ destFile = <<>>
    /\ initDest = <<>>
    /\ tableExists = FALSE
    /\ rows = <<>>
    /\ serverCert = "derA"
    /\ clientPin = {}
    /\ SessionsInit

\* calculate_file_hash(file_path) is called; entry is what the path is then
HashCall(c, path) ==
    /\ hash_calls[c].pc \in {"idle", "returned"}
    /\ hash_calls' = [hash_calls EXCEPT ![c] =
           [HashCallIdle EXCEPT !.pc = "check", !.path = path,
                                !.entry = EntryAt(fs, path)]]
    /\ UNCHANGED <<hashed, storeVars, transferVars, discoveryVars,
                   lifecycleVars, framingVars, certVars, listenVars, schemaVars, beaconVars, syncVars, instanceVars>>

\* the call ends with Err(message)
HashErr(call, message) ==
    [call EXCEPT !.pc = "returned", !.ok = FALSE, !.value = message]

\* if !path.exists() { bail } if !path.is_file() { bail }
HashCheck(c) ==
    /\ hash_calls[c].pc = "check"
    /\ LET call == hash_calls[c]
           entry == EntryAt(fs, call.path) IN
       hash_calls' = [hash_calls EXCEPT ![c] =
           IF entry.kind = "absent" THEN HashErr(call, "File does not exist")
           ELSE IF entry.kind # "file" THEN HashErr(call, "Path is not a file")
           ELSE [call EXCEPT !.pc = "open"]]
    /\ UNCHANGED <<hashed, storeVars, transferVars, discoveryVars,
                   lifecycleVars, framingVars, certVars, listenVars, schemaVars, beaconVars, syncVars, instanceVars>>

\* File::open, the read loop and finalize: Err when the path cannot be
\* opened or read as a file any more, else the digest of its content
HashContents(c) ==
    /\ hash_calls[c].pc = "open"
    /\ LET call == hash_calls[c]
           entry == EntryAt(fs, call.path) IN
       IF entry.kind = "file"
       THEN LET hash == CalculateFileHash(entry.content) IN
            /\ hash_calls' = [hash_calls EXCEPT ![c] =
                   [call EXCEPT !.pc = "returned", !.ok = TRUE, !.value = hash]]
            /\ hashed' = IF call.changed THEN hashed
                         ELSE [hashed EXCEPT ![call.path] = @ \cup {hash}]
       ELSE /\ hash_calls' = [hash_calls EXCEPT ![c] =
                   HashErr(call, IF entry.kind = "absent"
                                 THEN "Failed to open file"
                                 ELSE "Failed to read file")]
            /\ UNCHANGED hashed
    /\ UNCHANGED <<storeVars, transferVars, discoveryVars,
                   lifecycleVars, framingVars, certVars, listenVars, schemaVars, beaconVars, syncVars, instanceVars>>

\* the file at a path is created, rewritten, removed or replaced by a
\* directory by another program
FileChange(path, entry) ==
    /\ entry # fs[path]
    /\ fs' = [fs EXCEPT ![path] = entry]
    /\ hashed' = [hashed EXCEPT ![path] = {}]
    /\ hash_calls' = [c \in HashCallers |->
           IF hash_calls[c].pc \in {"check", "open"} /\ hash_calls[c].path = path
           THEN [hash_calls[c] EXCEPT !.changed = TRUE] ELSE hash_calls[c]]
    /\ UNCHANGED <<files, watchers, instance, result, transferVars, discoveryVars,
                   lifecycleVars, framingVars, certVars, listenVars, schemaVars, beaconVars, syncVars, instanceVars>>

HashNext ==
    \/ \E c \in HashCallers, path \in HashPaths : HashCall(c, path)
    \/ \E c \in HashCallers : HashCheck(c)
    \/ \E c \in HashCallers : HashContents(c)
    \/ \E entry \in {Absent, Directory} \cup {RegularFile(k) : k \in Contents} :
           FileChange("w/a", entry)

HashSpec == HashInit /\ [][HashNext]_vars

\* ------------------------------------------------- start of the database

\* pebble.db when the process starts: new, or left by an earlier run with
\* the table files and a row in it; the table transfer_state exists only
\* if something other than this program has created it
InitDbInit ==
    /\ files_table \in BOOLEAN
    /\ init_calls = 0
    /\ files \in (IF files_table THEN PriorStores ELSE {{}})
    /\ fs = <<>>
    /\ watchers = <<>>
    /\ instance = 0
    /\ result = "none"
    /\ srcFile = FileOfSize(MaxFileSize)
    /\ destFile = [exists |-> FALSE, bytes |-> <<>>]
    /\ initDest = destFile
    /\ tableExists \in BOOLEAN
    /\ serverCert = "derA"
    /\ clientPin = {}
    /\ SessionsInit
    /\ DiscoveryOff
    /\ LifecycleOff
    /\ InstanceOff
    /\ SyncOff
    /\ BeaconOff
    /\ HashOff
    /\ ListenOff
    /\ CertOff
    /\ FramingOff

\* init_db: CREATE TABLE IF NOT EXISTS files (..), and nothing else;
\* init_app logs its result
InitDb ==
    /\ init_calls < MaxInits
    /\ files_table' = TRUE
    /\ init_calls' = init_calls + 1
    /\ UNCHANGED <<storeVars, transferVars, discoveryVars, lifecycleVars,
                   framingVars, certVars, listenVars, hashVars, beaconVars, syncVars, instanceVars>>

\* the core runs after init_app: the caller records a file, and a client
\* and the transfer server run sessions
InitDbNext ==
    \/ InitDb
    \/ init_calls > 0 /\ \E path \in ApiPaths : RecordFileChange(path)
    \/ init_calls > 0 /\ TransferNext

InitDbSpec == InitDbInit /\ [][InitDbNext]_vars

\* ------------------------------------------------- properties of transfers
\* send_file has returned Ok and the handler of the same connection is over
Completed(s) == client[s].pc = "ok" /\ server[s].pc = "done"

\* chunk i of the sender's file
SrcChunk(i) == ReadChunk(srcFile, i * CHUNK_SIZE)

\* the destination holds chunk i of the sender's file at offset i*CHUNK_SIZE
ChunkWritten(i) ==
    /\ destFile.exists
    /\ Len(destFile.bytes) >= i * CHUNK_SIZE + Len(SrcChunk(i))
    /\ SubSeq(destFile.bytes, i * CHUNK_SIZE + 1, i * CHUNK_SIZE + Len(SrcChunk(i)))
         = SrcChunk(i)

\* the number of chunks written contiguously from offset 0
ContiguousChunks ==
    CHOOSE k \in 0..TotalChunks(Len(srcFile)) :
        /\ \A i \in 0..(k - 1) : ChunkWritten(i)
        /\ k = TotalChunks(Len(srcFile)) \/ ~ChunkWritten(k)

\* what an uninterrupted transfer leaves: the sender's bytes laid over the
\* prior content of the path, from offset 0
Uninterrupted == WriteAt(initDest.bytes, 0, srcFile)

\* Every completed transfer, interrupted before or not, leaves the sender's
\* bytes over the prior content, each chunk at index*CHUNK_SIZE.
CompletedIsOverlay ==
    \A s \in Sessions : Completed(s) =>
        /\ destFile.exists
        /\ destFile.bytes = Uninterrupted
        /\ \A i \in 0..(TotalChunks(Len(srcFile)) - 1) : ChunkWritten(i)

\* C1 (round trip): once send_file has returned success and the server
\* session has finished, the receiver's file is identical to the sender's
\* file, same length and same bytes, whatever the destination path held.
C1_RoundTrip ==
    \A s \in Sessions : Completed(s) =>
        destFile.exists /\ destFile.bytes = srcFile

\* C2 (resume idempotence): when a session has been cut by a receiver kill
\* and the sender has reconnected with the same transfer_id and resumed from
\* a persisted chunk, the completed file is the one of an uninterrupted
\* transfer, every chunk is at index*CHUNK_SIZE, and the file length is
\* file_size.
C2_ResumeIdempotent ==
    \A s \in Sessions : Completed(s) /\ client[s].retry /\ client[s].resume > 0 =>
        /\ destFile.bytes = Uninterrupted
        /\ \A i \in 0..(TotalChunks(Len(srcFile)) - 1) : ChunkWritten(i)
        /\ Len(destFile.bytes) = Len(srcFile)

\* the step in which the handler of connection s deals with its first frame
RequestHandled(s) ==
    /\ server[s].pc = "await_request"
    /\ server'[s].pc \in {"receiving", "done", "error"}

\* the TransferAccept that C3 expects for the request at the head of c2s[s]
ExpectedAccept(s) ==
    LET id == Head(c2s[s]).transfer_id IN
    TransferAccept(id, IF id \in DOMAIN rows THEN rows[id] ELSE 0)

C4_SafeLowerBound ==
    \A id \in DOMAIN rows :
        /\ rows[id] <= ContiguousChunks
        /\ rows[id] <= acksSent[id]

\* a kill has cut a session whose transfer has a row short of the whole file
C4_Witness ==
    \E s \in Sessions :
        /\ server[s].pc = "killed"
        /\ server[s].tid \in DOMAIN rows
        /\ rows[server[s].tid] >= 1
        /\ rows[server[s].tid] < TotalChunks(Len(srcFile))

\* C5 (acknowledged chunks are never re-requested): whenever the server has
\* sent ChunkAck(i), received_chunks >= i+1 is already persisted for the
\* transfer, so that a retry resumes after the last acknowledged chunk.
C5_AckImpliesPersisted ==
    \A s \in Sessions : \A k \in 1..Len(s2c[s]) :
        s2c[s][k].type = "ChunkAck" =>
            /\ s2c[s][k].transfer_id \in DOMAIN rows
            /\ rows[s2c[s][k].transfer_id] >= s2c[s][k].chunk_index + 1

\* C6 (monotonic received_chunks): no step removes a row of transfer_state
\* or lowers its received_chunks, overlapping sessions of one transfer_id
\* included.
C6_Monotonic ==
    [][\A id \in DOMAIN rows : id \in DOMAIN rows' /\ rows'[id] >= rows[id]]_vars

\* the client holds a pin and the server's leaf has another fingerprint
PinMismatch == clientPin # {} /\ clientPin # {Fingerprint(serverCert)}

\* C7 (pinning): with a pin that differs from the fingerprint of the
\* server's leaf, every connection ends in a failed handshake and the client
\* has written no frame on it; with no pin, whatever leaf is presented, the
\* handshake succeeds and the TransferRequest is written.
C7_Pinning ==
    \A s \in Sessions : client[s].pc # "idle" =>
        /\ PinMismatch =>
              /\ client[s].pc = "tls_failed"
              /\ ~appSent[s]
              /\ c2s[s] = <<>>
              /\ server[s].pc = "error"
        /\ clientPin = {} => client[s].pc # "tls_failed" /\ appSent[s]

\* a connection against a leaf that differs from the pin has been attempted
C7_Witness ==
    \E s \in Sessions : PinMismatch /\ client[s].pc = "tls_failed"

\* ------------------------------------------------- properties of discovery
\* the step in which the receiver reads and handles a datagram
Received == buffer' # <<>> /\ now' = now /\ last_cleanup' = last_cleanup

IsBeacon(dgram) == "device_id" \in DOMAIN dgram

\* the beacon carries the signature that key gives for its own fields
SignedUnder(beacon, key) ==
    beacon.signature = GenerateSignature(
        DataToSign(beacon.device_id, beacon.device_name, beacon.timestamp,
                   beacon.protocol_version), key)

\* C8 (beacon freshness): a beacon whose timestamp is more than 30 seconds
\* older than the receiver's clock when it is processed neither inserts nor
\* refreshes a peer-table entry, whatever its HMAC.
C8_Freshness ==
    [][Received /\ IsBeacon(buffer'[1]) /\ now - buffer'[1].timestamp > 30
         => devices' = devices /\ receivedAt' = receivedAt]_vars

\* a beacon of the peer with a valid HMAC and a timestamp 31 seconds old has
\* been processed, and the peer's entry holds another timestamp
C8_Witness ==
    /\ buffer # <<>>
    /\ IsBeacon(buffer[1])
    /\ buffer[1].device_id = PeerDeviceId
    /\ SignedUnder(buffer[1], SecretKey)
    /\ now - buffer[1].timestamp > 30
    /\ PeerDeviceId \in DOMAIN devices
    /\ devices[PeerDeviceId].last_seen # buffer[1].timestamp

\* C9 (beacon authentication): a beacon signed under a key other than the
\* receiver's pre-shared key neither inserts nor refreshes a peer-table
\* entry, whatever its timestamp.
C9_Authentication ==
    [][Received /\ IsBeacon(buffer'[1])
         /\ (\E key \in Keys \ {SecretKey} : SignedUnder(buffer'[1], key))
         => devices' = devices /\ receivedAt' = receivedAt]_vars

\* a beacon of the peer with a fresh timestamp, signed under another key,
\* has been processed and the peer has no entry
C9_Witness ==
    /\ buffer # <<>>
    /\ IsBeacon(buffer[1])
    /\ buffer[1].device_id = PeerDeviceId
    /\ ~SignedUnder(buffer[1], SecretKey)
    /\ buffer[1].timestamp = now
    /\ PeerDeviceId \notin DOMAIN devices
    /\ receiver = "running"

Accepted ==
    /\ Received
    /\ IsBeacon(buffer'[1])
    /\ buffer'[1].device_id # OwnDeviceId
    /\ "valid" \in Verify(buffer'[1], SecretKey, now)
    /\ receiver' = "running"

\* C11 (peer lifecycle): the first accepted beacon of a device_id inserts one
\* entry with the beacon's identity fields, ip_address = the UDP source,
\* last_seen = beacon.timestamp and is_online = true; a later accepted beacon
\* sets last_seen and is_online on that entry and nothing else; the entry
\* under a device_id is the one carrying that device_id.
C11_Lifecycle ==
    /\ [](\A d \in DOMAIN devices : devices[d].device_id = d /\ devices[d].is_online)
    /\ [][Accepted =>
            LET b == buffer'[1] IN
            /\ DOMAIN devices' = (DOMAIN devices) \cup {b.device_id}
            /\ \A d \in DOMAIN devices : d # b.device_id => devices'[d] = devices[d]
            /\ IF b.device_id \in DOMAIN devices
               THEN devices'[b.device_id] =
                       [devices[b.device_id] EXCEPT !.last_seen = b.timestamp,
                                                    !.is_online = TRUE]
               ELSE devices'[b.device_id] =
                       [device_id |-> b.device_id, device_name |-> b.device_name,
                        ip_address |-> src_addr',
                        protocol_version |-> b.protocol_version,
                        last_seen |-> b.timestamp, is_online |-> TRUE]]_vars

\* a later beacon of the peer, from another address than the first, has
\* been accepted: the entry has its timestamp and the first address
C11_Witness ==
    /\ buffer # <<>>
    /\ IsBeacon(buffer[1])
    /\ PeerDeviceId \in DOMAIN devices
    /\ receivedAt[PeerDeviceId] = now
    /\ devices[PeerDeviceId].last_seen = buffer[1].timestamp
    /\ devices[PeerDeviceId].ip_address # src_addr

\* ------------------------------------------------ properties of the store

\* watcher i has an event in its channel
Queued(i) == i \in DOMAIN watchers /\ watchers[i].queue # <<>>

\* this step is the handler of watcher i handling the head of its channel
Handled(i) ==
    /\ Queued(i)
    /\ watchers[i].handler = "running"
    /\ watchers' = [watchers EXCEPT ![i].queue = Tail(@)]

\* the record that describes the file at a path
RecordOf(fsys, path, sync_status) ==
    FileMetadata(path, fsys[path].mtime,
        CalculateFileHash(fsys[path].content), sync_status)

C13_RemovalHandling ==
    [][\A i \in DOMAIN watchers :
          LET event == Head(watchers[i].queue)
          IN  (Handled(i) /\ event.kind = "Removed")
              => /\ {r.path : r \in files'} = {r.path : r \in files}
                 /\ Cardinality(files') = Cardinality(files)
                 /\ \A r \in files :
                        IF r.path = event.path
                        THEN [r EXCEPT !.sync_status = "Deleted"] \in files'
                        ELSE r \in files']_vars

\* the file that the scan recorded has been removed, and the handler has
\* marked its record; the record of the other file is as it was
C13_Witness ==
    /\ fs["w/a"] = Absent
    /\ files = {FileMetadata("w/a", 1, "initial_scan", "Deleted"),
                FileMetadata("w/c", 1, "initial_scan", "Synced")}
    /\ \A i \in DOMAIN watchers : watchers[i].queue = <<>>

\* the paths that have a record
RecordedPaths(table) == {r.path : r \in table}

\* C14: each path has at most one record, and no step of the store, the
\* watchers or the file system erases a record: every recorded path stays
\* recorded.
C14_RetentionAndUniqueness ==
    /\ [](\A r1, r2 \in files : r1.path = r2.path => r1 = r2)
    /\ [][RecordedPaths(files) \subseteq RecordedPaths(files')]_vars

\* a path was recorded by the handler, by the caller and by the scan in
\* turn and has one record; the file is gone and its record is kept
C14_Witness ==
    /\ fs["w/a"] = Absent
    /\ \E r \in files :
           r.path = "w/a" /\ r.file_hash = "b3:y" /\ r.sync_status = "Deleted"
    /\ Cardinality(files) = 2
    /\ instance = 0

\* the four statuses of a record
SyncStatuses == {"Pending", "Synced", "Failed", "Deleted"}

\* C15: in every reachable state the sync_status of every record is one
\* of Pending, Synced, Failed and Deleted.
C15_StatusDomain == \A r \in files : r.sync_status \in SyncStatuses

\* C16: update_sync_status on a path without a record fails with the
\* not-found error and leaves the store as it was; on a path with a record
\* it succeeds and changes the sync_status of that record and nothing else.
C16_UpdateSyncStatus ==
    [][\A path \in ApiPaths, status \in StatusArgs :
          UpdateFileStatus(path, status)
          => IF GetFileMetadata(files, path) = {}
             THEN result' = "QueryReturnedNoRows" /\ files' = files
             ELSE /\ result' = "ok"
                  /\ \E r \in files :
                         /\ r.path = path
                         /\ files' = (files \ {r})
                                \cup {[r EXCEPT !.sync_status = status]}]_vars

\* the update of a path that has no record has failed, next to the record
\* of another path, which is untouched
C16_Witness ==
    /\ result = "QueryReturnedNoRows"
    /\ files = {FileMetadata("w/c", 1, "initial_scan", "Synced")}

\* the regular files at or below a base path
RegularFilesUnder(fsys, base_path) ==
    {p \in Paths : (p = base_path \/ Parent(p) = base_path) /\ IsFile(fsys, p)}

ActiveWatchers == {i \in DOMAIN watchers : watchers[i].active}

\* watcher i has been replaced or stopped
Dropped(i) == i \in DOMAIN watchers /\ ~watchers[i].active

\* the handler task of watcher i has ended
Exited(i) == i \in DOMAIN watchers /\ watchers[i].handler = "exited"

RunningInstances ==
    {i \in DOMAIN services :
        services[i].is_running /\ services[i].sender # "exited"}

\* C19: at most one Discovery instance has a running beacon sender and
\* beacon receiver, whatever start_device_discovery and
\* stop_device_discovery calls were made.
C19_AtMostOneInstance == Cardinality(RunningInstances) <= 1

\* stop() has been called on service i
Stopped(i) == i \in DOMAIN services /\ ~services[i].is_running

\* both tasks of service i have ended
TasksExited(i) ==
    /\ i \in DOMAIN services
    /\ services[i].sender = "exited"
    /\ services[i].receiver \in {"exited", "failed"}

\* What stop() does for the one service it is called on: from its next
\* interval tick on the sender sends nothing, from its next poll on the
\* receiver processes nothing, and both tasks end.
StoppedServiceShutsDown ==
    /\ [][\A i \in DOMAIN services :
             Stopped(i)
             => /\ services[i].sender = "waiting"
                    => services'[i].sender \in {"waiting", "exited"}
                /\ services[i].receiver = "sleeping"
                    => services'[i].receiver \in {"sleeping", "exited"}
                /\ services[i].sender = "exited"
                    => services'[i].sender = "exited"
                /\ services[i].receiver = "exited"
                    => services'[i].receiver = "exited"]_vars
    /\ []<>(\A i \in DOMAIN services : Stopped(i) => TasksExited(i))

\* C20: once stop_device_discovery has been called and no start follows,
\* the list of discovered devices is empty and every beacon sender and
\* receiver of the process ends (so none sends or processes any more).
C20_CooperativeShutdown ==
    /\ [](discovery_service = 0 => GetDiscoveredDevices = {})
    /\ <>[](discovery_service = 0)
           => <>[](\A i \in DOMAIN services : TasksExited(i))


\* ---------------------------------------------------- properties of framing

\* the bytes of a frame: the length prefix and the payload
FrameLen(m) == PREFIX_LEN + Len(ToJson(m))

\* the stream has given back the messages put on it so far, in order, and
\* its next read gives the next one and takes the bytes of its frame only
NextFrameDecodes ==
    /\ reader = "reading"
    /\ Len(decoded) <= Len(framed)
    /\ decoded = SubSeq(framed, 1, Len(decoded))
    /\ Len(decoded) < Len(framed) =>
           LET m == framed[Len(decoded) + 1]
               r == FromStream(wire) IN
           /\ r.status = "ok"
           /\ r.msg = m
           /\ Len(r.rest) = Len(wire) - FrameLen(m)

\* every payload on the stream is shorter than the range of the prefix
PayloadsFitU32 == \A i \in 1..Len(framed) : Len(ToJson(framed[i])) < U32_RANGE

ReturnedOk(c) == callers[c].pc = "returned" /\ callers[c].cert # NoCertificate

\* a call that found both files wrote nothing and kept the arguments out
\* of what it returned; a call generated a certificate only when a file
\* was absent
LoadsWhenPresent ==
    \A c \in Callers :
        /\ callers[c].found => callers[c].wrote = 0
        /\ callers[c].pc \in {"write_cert", "write_key"} => ~callers[c].found
        /\ ReturnedOk(c) /\ callers[c].wrote > 0 => ~callers[c].found

\* C22: get_or_create is stable: a call that finds both files returns the
\* persisted certificate whatever arguments it is given and writes nothing,
\* a certificate is generated only when a file is absent, and all the calls
\* without an intervening delete return the same fingerprint.
C22_GetOrCreateStable == LoadsWhenPresent /\ Cardinality(issued) <= 1

\* the same, for calls of which no two ever ran at the same time
StableWhenCallsDoNotOverlap == ~overlapped => C22_GetOrCreateStable

\* a second call with another device_id has loaded what the first persisted
LoadedAfterGenerate ==
    \E c, d \in Callers :
        /\ ReturnedOk(c) /\ callers[c].found
        /\ ReturnedOk(d) /\ ~callers[d].found
        /\ callers[c].device_id # callers[d].device_id
        /\ callers[c].cert.fingerprint = callers[d].cert.fingerprint
        /\ ~overlapped


\* ---------------------------------- properties of the transfer server start

\* C23: start_transfer_server reports the real outcome: a call that has
\* returned a success string has a server listening on the requested port,
\* or one that is still to bind it; a server that could not be started
\* (its port is bound already) was reported as an error.
C23_ReportsOutcome ==
    \A i \in DOMAIN transfer_servers :
        transfer_servers[i].returned = "Ok" => transfer_servers[i].pc # "failed"


\* ------------------------------------------------ properties of file_hash

\* the call of c has returned and its path did not change while it ran
ReturnedUnchanged(c) == hash_calls[c].pc = "returned" /\ ~hash_calls[c].changed

C25_InitCreatesEveryTable == init_calls > 0 => files_table /\ tableExists

\* init() creates the table files if absent, succeeds again when called
\* again, and leaves the rows of both tables as they are
InitDbIdempotentOnFiles ==
    /\ [](init_calls > 0 => files_table)
    /\ [][init_calls' # init_calls => files' = files /\ rows' = rows]_vars


\* ------------------------------------- properties of the receiving server

\* the server reads the frame at the head of connection s in this step
\* (a kill of the receiver drops the frames unread)
ReadsFirst(s) ==
    /\ server[s].pc = "await_request"
    /\ c2s[s] # <<>>
    /\ c2s'[s] # c2s[s]
    /\ server'[s].pc # "killed"

ReadsInReceiving(s) ==
    /\ server[s].pc = "receiving"
    /\ c2s[s] # <<>>
    /\ c2s'[s] # c2s[s]
    /\ server'[s].pc # "killed"

\* the frame read is a ChunkData whose data hashes to its chunk_hash
ReadsGoodChunk(s) ==
    /\ ReadsInReceiving(s)
    /\ Head(c2s[s]).type = "ChunkData"
    /\ Sha256(Head(c2s[s]).data) = Head(c2s[s]).chunk_hash

ReadsBadChunk(s) ==
    /\ ReadsInReceiving(s)
    /\ Head(c2s[s]).type = "ChunkData"
    /\ Sha256(Head(c2s[s]).data) # Head(c2s[s]).chunk_hash

\* C26: on ChunkData(i) in RECEIVING the server writes the data at byte
\* offset i * CHUNK_SIZE of the destination file and sets received_chunks
\* to i + 1, for every chunk_index i the message carries.
C26_WritesAtIndex ==
    [][\A s \in Sessions :
          ReadsGoodChunk(s) =>
              LET m == Head(c2s[s]) IN
              /\ destFile'.bytes = WriteAt(destFile.bytes, m.chunk_index * CHUNK_SIZE, m.data)
              /\ server'[s].received = m.chunk_index + 1]_vars

\* what the server does with a good chunk: it writes it where the file
\* position is and counts one chunk more, whatever index the frame carries
WritesAtPosition ==
    [][\A s \in Sessions :
          ReadsGoodChunk(s) =>
              /\ destFile'.bytes = WriteAt(destFile.bytes, server[s].pos, Head(c2s[s]).data)
              /\ server'[s].received = server[s].received + 1]_vars

\* a first frame that is not a TransferRequest ends the session without a
\* TransferAccept
WrongFirstFrameEnds ==
    [][\A s \in Sessions :
          ReadsFirst(s) /\ Head(c2s[s]).type # "TransferRequest" =>
              server'[s].pc = "error" /\ s2c' = s2c]_vars

\* a frame other than ChunkData leaves the file and transfer_state alone
WrongFrameKeepsState ==
    [][\A s \in Sessions :
          ReadsInReceiving(s) /\ Head(c2s[s]).type # "ChunkData" =>
              destFile' = destFile /\ rows' = rows]_vars

\* C27: a message of a wrong kind terminates the server session with an
\* error: a first message that is not TransferRequest ends the session
\* without a TransferAccept, and in RECEIVING a message other than ChunkData
\* ends the session without reporting the file as received, the partial
\* file and transfer_state left as they were.
C27_WrongKindTerminates ==
    [][\A s \in Sessions :
          /\ ReadsFirst(s) /\ Head(c2s[s]).type # "TransferRequest" =>
                 server'[s].pc = "error" /\ s2c' = s2c
          /\ ReadsInReceiving(s) /\ Head(c2s[s]).type # "ChunkData" =>
                 server'[s].pc = "error" /\ destFile' = destFile /\ rows' = rows]_vars

\* C28: once it has accepted a transfer, the server flushes and closes the
\* session (receive_file returns Ok) only by reading the client's
\* TransferComplete, with every chunk received: after the last chunk is
\* acknowledged it waits for that message.
C28_ClosesOnTransferComplete ==
    [][\A s \in Sessions :
          server[s].pc \in {"receiving", "ack", "persist"} /\ server'[s].pc = "done" =>
              /\ server[s].pc = "receiving"
              /\ c2s[s] # <<>>
              /\ Head(c2s[s]).type = "TransferComplete"
              /\ server[s].received = server[s].total]_vars

\* C29: when the data of a ChunkData does not hash to its chunk_hash the
\* server ends the session without writing a byte of the chunk, without a
\* ChunkAck for it and without changing transfer_state, and a session that
\* has ended does nothing more: the chunks accepted before and their
\* persisted count remain.
C29_ChunkIntegrity ==
    [][\A s \in Sessions :
          /\ ReadsBadChunk(s) =>
                 /\ server'[s].pc = "error"
                 /\ destFile' = destFile
                 /\ s2c' = s2c
                 /\ acksSent' = acksSent
                 /\ rows' = rows
          /\ server[s].pc = "error" =>
                 /\ server'[s] = server[s]
                 /\ destFile' = destFile
                 /\ acksSent' = acksSent
                 /\ rows' = rows]_vars

\* the first chunk was accepted, acknowledged and persisted, and the
\* session has ended on a corrupted second one
C29_Witness ==
    /\ server[1].pc = "error"
    /\ DOMAIN rows = {"t1"}
    /\ rows["t1"] = 1
    /\ acksSent["t1"] = 1
    /\ destFile.exists
    /\ Len(destFile.bytes) >= CHUNK_SIZE
    /\ SubSeq(destFile.bytes, 1, CHUNK_SIZE) = PeerChunk(0)
    /\ client[1].pc = "peer"


\* ---------------------------------------- properties of the sending client

\* the client writes a frame on connection s in this step, and the frame
ClientEmits(s) == Len(c2s'[s]) = Len(c2s[s]) + 1

Emitted(s) == c2s'[s][Len(c2s'[s])]

\* the frame at the head of connection s is the ChunkAck of chunk index
IsAckOf(s, index) ==
    Head(s2c[s]).type = "ChunkAck" /\ Head(s2c[s]).chunk_index = index

\* the client reads the frame at the head of connection s in this step
ClientReads(s) ==
    /\ client[s].pc \in {"await_accept", "await_ack"}
    /\ s2c[s] # <<>>
    /\ client'[s] # client[s]

\* C30: within one session the client emits ChunkData with the indices
\* resume_from_chunk, resume_from_chunk + 1, .., total_chunks - 1 in
\* strictly increasing order, each only on the ChunkAck of the one before,
\* so that at most one chunk is unacknowledged; it aborts without a
\* further chunk or TransferComplete when the reply to chunk i is not
\* ChunkAck with index i; TransferComplete is sent only after every chunk
\* was acknowledged.
C30_StopAndWait ==
    [][\A s \in Sessions :
          LET total == TotalChunks(Len(srcFile)) IN
          /\ ClientEmits(s) /\ Emitted(s).type = "ChunkData" =>
                 /\ Emitted(s).chunk_index < total
                 /\ \/ /\ client[s].pc = "await_accept"
                       /\ Head(s2c[s]).type = "TransferAccept"
                       /\ Emitted(s).chunk_index = Head(s2c[s]).resume_from_chunk
                    \/ /\ client[s].pc = "await_ack"
                       /\ IsAckOf(s, client[s].idx)
                       /\ Emitted(s).chunk_index = client[s].idx + 1
          /\ ClientEmits(s) /\ Emitted(s).type = "TransferComplete" =>
                 \/ /\ client[s].pc = "await_accept"
                    /\ Head(s2c[s]).type = "TransferAccept"
                    /\ Head(s2c[s]).resume_from_chunk >= total
                 \/ /\ client[s].pc = "await_ack"
                    /\ IsAckOf(s, client[s].idx)
                    /\ client[s].idx = total - 1
          /\ (/\ ClientReads(s)
              /\ client[s].pc = "await_ack"
              /\ ~IsAckOf(s, client[s].idx)) =>
                 client'[s].pc = "failed" /\ c2s'[s] = c2s[s]
          /\ client[s].pc = "failed" =>
                 client'[s] = client[s] /\ ~ClientEmits(s)]_vars

\* the client has sent every chunk of a file of several chunks, each on the
\* acknowledgement of the one before, and TransferComplete after the last
C30_Witness ==
    /\ client[1].pc = "ok"
    /\ server[1].pc = "await_request"
    /\ TotalChunks(Len(srcFile)) > 1
    /\ c2s[1] # <<>>
    /\ c2s[1][Len(c2s[1])].type = "TransferComplete"
    /\ s2c[1] = <<>>


\* -------------------------------------------- properties of discarded datagrams
\* a datagram beacon_receiver is to discard: bytes that are no beacon, the
\* receiver's own beacon, a beacon whose signature is not the one the shared
\* key gives, or a beacon more than 30 seconds behind the receiver's clock
Discarded(dgram, clock) ==
    \/ ~IsBeacon(dgram)
    \/ dgram.device_id = OwnDeviceId
    \/ ~SignedUnder(dgram, SecretKey)
    \/ clock > dgram.timestamp + REPLAY_WINDOW_SECS

\* C31 (discarded datagrams): a datagram that is no beacon, carries the local
\* device_id, fails the HMAC check or is stale leaves the peer table
\* unchanged and leaves the receiver running; the local device_id is never a
\* key of the peer table.
C31_DiscardChangesNothing ==
    [][/\ Received /\ receiver = "running" /\ Discarded(buffer'[1], now)
            => devices' = devices /\ receiver' = "running"
       /\ OwnDeviceId \notin DOMAIN devices']_vars

\* the part about the peer table: a discarded datagram leaves it unchanged
DiscardKeepsTable ==
    [][Received /\ Discarded(buffer'[1], now)
           => devices' = devices /\ receivedAt' = receivedAt]_vars

\* the local device_id is never a key of the peer table
LocalIdNeverKeyed == OwnDeviceId \notin DOMAIN devices

\* a running receiver that has discarded a datagram accepts a later beacon
DiscardThenAccept ==
    [][Received /\ receiver = "running" /\ receiver' = "running"
           /\ ~Discarded(buffer'[1], now)
           /\ buffer'[1].timestamp + REPLAY_WINDOW_SECS <= U64_MAX
           => buffer'[1].device_id \in DOMAIN devices'
              /\ devices'[buffer'[1].device_id].last_seen = buffer'[1].timestamp]_vars

\* --------------------------------------- properties of a start that fails
\* C32 (failed start): start_file_watcher with a path that does not exist or
\* is not a directory returns an error and changes no state: no watcher is
\* installed, the watcher that was active stays active, and the store holds
\* exactly the records it held before the call.
C32_FailedStartChangesNothing ==
    [][\A watch_path \in WatchPaths :
          StartFileWatcher(watch_path) /\ ~IsDir(fs, watch_path)
          => /\ result' = "err"
             /\ watchers' = watchers
             /\ instance' = instance
             /\ files' = files]_vars

\* the part about the watchers: the call fails and the watchers stay
FailedStartKeepsWatcher ==
    [][\A watch_path \in WatchPaths :
          StartFileWatcher(watch_path) /\ ~IsDir(fs, watch_path)
          => /\ result' = "err"
             /\ watchers' = watchers
             /\ instance' = instance]_vars

\* a path that does not exist: the store stays as well
MissingPathChangesNothing ==
    [][\A watch_path \in WatchPaths :
          /\ watch_path \in DOMAIN fs
          /\ fs[watch_path].kind = "absent"
          /\ StartFileWatcher(watch_path)
          => result' = "err" /\ files' = files]_vars

\* ------------------------------- properties of the certificate's persistence

\* the two files are absent, or present with the certificate and the key
\* of one generated pair
PairOnDisk ==
    /\ certFile.exists <=> keyFile.exists
    /\ certFile.exists =>
           \E device_id \in CertDeviceIds, n \in 1..generated :
               LET pair == GenerateSelfSigned(device_id, "name", n) IN
               certFile.bytes = pair.cert_der /\ keyFile.bytes = pair.key_der

\* the certificate the call of c holds is the one in the certificate file
HoldsDiskCertificate(c) ==
    /\ certFile.exists
    /\ callers[c].cert.fingerprint = Fingerprint(certFile.bytes)

\* C33 (atomic persistence): in every reachable state, a crash in the middle
\* of get_or_create and two concurrent calls included, the certificate file
\* and the key file are both absent or both present and of one generated
\* pair, and every call that returns Ok returns the fingerprint of the
\* certificate that is on disk.
C33_AtomicPersistence ==
    [][/\ PairOnDisk'
       /\ \A c \in Callers :
              callers[c].pc # "returned" /\ ReturnedOk(c)'
              => HoldsDiskCertificate(c)']_vars

\* no call is running
AtRest == \A c \in Callers : ~InProgress(c)

\* no call has had the files deleted under it
Undisturbed == \A c \in Callers : ~callers[c].deleted

\* with no crash, no two calls at once and no delete during a call, the
\* files are a pair whenever no call is running
PairOnDiskAtRest == AtRest /\ ~overlapped /\ Undisturbed => PairOnDisk

\* two calls at once never leave the certificate of one with the key of
\* the other
NoMixedPairAtRest ==
    AtRest /\ certFile.exists /\ keyFile.exists => PairOnDisk

\* a call that ran alone and undisturbed returns the certificate on disk
ReturnsDiskCertificate ==
    [][\A c \in Callers :
           callers[c].pc # "returned" /\ ReturnedOk(c)'
               /\ ~overlapped /\ ~callers[c].deleted
           => HoldsDiskCertificate(c)']_vars

\* ------------------------------------------- properties of beacon integrity

\* verify has returned Ok(true) for the beacon it was given
VerifiedOk == verified # <<>> /\ verified[1].is_valid = "valid"

\* C34 (beacon integrity): every beacon verify accepts under the shared key
\* has exactly the device_id, device_name, timestamp and protocol_version
\* of some beacon that was signed with that key.
C34_BeaconIntegrity ==
    VerifiedOk => \E s \in signed : FieldsOf(s) = FieldsOf(verified[1].beacon)

\* what the signature does bind: the concatenation of the four fields
SignedStringIntegrity ==
    VerifiedOk =>
        \E s \in signed :
            /\ s.signature = verified[1].beacon.signature
            /\ DataToSign(s.device_id, s.device_name, s.timestamp,
                          s.protocol_version)
                   = LET b == verified[1].beacon IN
                     DataToSign(b.device_id, b.device_name, b.timestamp,
                                b.protocol_version)

\* a beacon too old to be accepted itself is accepted with a digit moved
\* from its name to its timestamp
StaleBeaconNotRevived ==
    VerifiedOk =>
        \E s \in signed :
            /\ s.signature = verified[1].beacon.signature
            /\ ~(StartTime > s.timestamp + REPLAY_WINDOW_SECS)

\* ------------------------------------------------- properties of last_seen

\* C35 (last_seen is monotonic): for a device that stays in the peer table,
\* last_seen never decreases; an accepted beacon that arrives out of order
\* or is replayed inside the 30-second window does not replace last_seen by
\* an older timestamp.
C35_LastSeenMonotonic ==
    [][\A d \in (DOMAIN devices) \cap (DOMAIN devices') :
           devices'[d].last_seen >= devices[d].last_seen]_vars

\* what the receiver does: the entry takes the timestamp of the beacon
\* accepted last, older or newer
LastSeenIsLastAccepted ==
    [][Accepted => devices'[buffer'[1].device_id].last_seen = buffer'[1].timestamp]_vars

\* a step other than the acceptance of a beacon leaves last_seen as it is
LastSeenOnlySetByBeacon ==
    [][~Accepted =>
          \A d \in (DOMAIN devices) \cap (DOMAIN devices') :
              devices'[d].last_seen = devices[d].last_seen]_vars

\* ------------------------------------------- properties of the Pending marks

\* the paths whose record is Pending through the handler of a watcher: it
\* carries the blake3 hash the handler computed
WatcherPending(table) ==
    {r.path : r \in {q \in table :
                        /\ q.sync_status = "Pending"
                        /\ q.file_hash \in {CalculateFileHash(c) : c \in Contents}}}

\* this step is a call of stop_file_watcher or of start_file_watcher
Restart ==
    \/ StopFileWatcher
    \/ \E watch_path \in WatchPaths : StartFileWatcher(watch_path)

\* C36 (Pending marks survive a restart): a file whose record is Pending
\* from a Created or Modified event is still returned by list_pending after
\* a stop_file_watcher or start_file_watcher call.
C36_PendingSurvivesRestart ==
    [][Restart => WatcherPending(files) \subseteq GetPendingFiles(files')]_vars

\* stop_file_watcher leaves the store as it is
StopKeepsStore == [][StopFileWatcher => files' = files]_vars

\* a start keeps the Pending mark of every path outside what it scans
StartKeepsPendingElsewhere ==
    [][\A watch_path \in WatchPaths :
          StartFileWatcher(watch_path)
          => WatcherPending(files) \ RegularFilesUnder(fs, watch_path)
                 \subseteq GetPendingFiles(files')]_vars

\* ----------------------------------------- properties of the sync of a file

\* the record of the path the caller syncs was written again by the
\* handler of a Created or Modified event since the caller listed it, for
\* a version of the file other than the one the caller sent
ChangedSinceListed ==
    \E r \in GetFileMetadata(files, sync_caller.path) :
        /\ r.sync_status = "Pending"
        /\ r.file_hash # sync_caller.listed
        /\ r.file_hash # sync_caller.sent

\* C37 (no lost change): if a Modified event for a path is handled after the
\* caller read the path from list_pending and before the caller's
\* update_file_status(path, Synced) for the version it sent, the path is
\* still Pending afterwards.
C37_NoLostChange ==
    [][SyncMark /\ ChangedSinceListed
          => sync_caller.path \in GetPendingFiles(files')]_vars

\* what the update does: it sets the status whatever the record holds, and
\* nothing else
MarkSetsStatusOnly ==
    [][SyncMark =>
          files' = {IF r.path = sync_caller.path
                    THEN [r EXCEPT !.sync_status = "Synced"] ELSE r : r \in files}]_vars

\* ------------------------------------------- properties of progress events

\* the server of connection s sends its progress event in this step: the
\* chunk was persisted
ServerEmitsProgress(s) == SrvPersist(s) /\ tableExists

\* the client of connection s sends its progress event in this step: the
\* ChunkAck of its chunk has come
ClientEmitsProgress(s) ==
    ClientOnAck(s) /\ AckMatches(Head(s2c[s]), client[s].idx)

ChunksWithinTotal(progress) == progress.completed_chunks <= progress.total_chunks

BytesWithinTotal(progress) == progress.bytes_transferred <= progress.total_bytes

\* C38 (progress events): in every TransferProgress event of the server or
\* the client, completed_chunks <= total_chunks and bytes_transferred <=
\* total_bytes, for every file size.
C38_ProgressWithinTotals ==
    [][\A s \in Sessions :
          /\ ServerEmitsProgress(s)
             => LET progress == ServerProgress(server[s], Len(srcFile)) IN
                ChunksWithinTotal(progress) /\ BytesWithinTotal(progress)
          /\ ClientEmitsProgress(s)
             => LET progress == ClientProgress(client[s], Len(srcFile)) IN
                ChunksWithinTotal(progress) /\ BytesWithinTotal(progress)]_vars

\* the part about the chunk counts
ProgressChunksWithinTotal ==
    [][\A s \in Sessions :
          /\ ServerEmitsProgress(s)
             => ChunksWithinTotal(ServerProgress(server[s], Len(srcFile)))
          /\ ClientEmitsProgress(s)
             => ChunksWithinTotal(ClientProgress(client[s], Len(srcFile)))]_vars

\* the byte count is right for every chunk but a short last one, where it
\* is the file size rounded up to whole chunks
ProgressBytesRoundedUp ==
    [][\A s \in Sessions :
          /\ ServerEmitsProgress(s)
             => LET progress == ServerProgress(server[s], Len(srcFile)) IN
                progress.bytes_transferred
                    <= TotalChunks(progress.total_bytes) * CHUNK_SIZE
          /\ ClientEmitsProgress(s)
             => LET progress == ClientProgress(client[s], Len(srcFile)) IN
                /\ progress.bytes_transferred
                       <= TotalChunks(progress.total_bytes) * CHUNK_SIZE
                /\ progress.completed_chunks < progress.total_chunks
                       => BytesWithinTotal(progress)]_vars

\* -------------------------------- properties of the tasks of one service

\* the tasks that have not ended
AliveSenders == {i \in DOMAIN tasks : tasks[i].sender \in {"waiting", "sending"}}
AliveReceivers ==
    {i \in DOMAIN tasks : tasks[i].receiver \in {"binding", "sleeping", "receiving"}}

\* the tasks spawned by a start() that no stop() has followed
Unstopped == {i \in DOMAIN tasks : ~tasks[i].stopped}

\* C39 (one pair of tasks): on one DiscoveryService, whatever start() and
\* stop() calls are made, the tasks of a start() that a stop() has followed
\* end when they next read the running flag, also when start() was called
\* again before; so the tasks of the latest start() are the only ones that
\* remain.
C39_OldTasksEnd ==
    [][/\ \A i \in DOMAIN tasks :
            /\ tasks[i].stopped /\ tasks[i].sender = "waiting"
                   /\ tasks'[i].sender # "waiting"
               => tasks'[i].sender = "exited"
            /\ tasks[i].stopped /\ tasks[i].receiver = "sleeping"
                   /\ tasks'[i].receiver # "sleeping"
               => tasks'[i].receiver = "exited"
       /\ Cardinality(Unstopped') <= 1]_vars

\* start() never spawns next to tasks that no stop() was called for
OnePairPerStart == Cardinality(Unstopped) <= 1

\* while no start() follows the stop(), the stopped tasks do end at their
\* next read of the flag
StoppedTasksEndUnlessRestarted ==
    [][\A i \in DOMAIN tasks :
          ~is_running =>
             /\ tasks[i].sender = "waiting" /\ tasks'[i].sender # "waiting"
                => tasks'[i].sender = "exited"
             /\ tasks[i].receiver = "sleeping" /\ tasks'[i].receiver # "sleeping"
                => tasks'[i].receiver = "exited"]_vars

\* two senders of one service are past their check of the flag, the older
\* one after a stop()
TwoSendersNeverSending ==
    ~\E i, j \in DOMAIN tasks :
        /\ i < j
        /\ tasks[i].stopped
        /\ tasks[i].sender = "sending"
        /\ tasks[j].sender = "sending"
        /\ is_running

\* ------------------------------------------------ properties of sessions

\* the transfer id of session s has a row and the row counts at least the
\* chunks of the file
ResumeAtOrAboveTotal(s) ==
    /\ client[s].tid \in DOMAIN rows
    /\ rows[client[s].tid] >= TotalChunks(Len(srcFile))

SessionsEnd ==
    \A s \in Sessions :
       (client[s].pc = "await_accept") ~> (ClientClosed(s) /\ ServerClosed(s))

\* with a transfer_state table no side of a session returns an error
NoSideFails ==
    tableExists =>
       \A s \in Sessions : client[s].pc # "failed" /\ server[s].pc # "error"

\* a session of an empty file has ended in success
EndedEmptyFile ==
    \E s \in Sessions :
       client[s].pc = "ok" /\ server[s].pc = "done" /\ Len(srcFile) = 0

====
